---- MODULE Spec2Model ----
(***************************************************************************)
(* gmbm: the gmod13 stack interface (lua.rs, bits.rs) and the user-type    *)
(* registration protocol (user_types/mod.rs, user_types/func.rs).          *)
(*                                                                         *)
(* The host interpreter is reached only through the virtual table of       *)
(* raw.rs; every host operation is modelled by the contract its wrapper in *)
(* lua.rs documents.  Each method of `Lua` is an operator from a Lua state *)
(* record to a Lua state record, composed exactly as the Rust code         *)
(* composes the calls; the actions at the end apply whole methods.         *)
(***************************************************************************)
EXTENDS Integers, Sequences, FiniteSets, TLC

VARIABLES
    lua,    \* the interpreter session as the current native call sees it
    ret,    \* what the last binding call handed back (or how it exited)
    hist    \* bookkeeping of the caller: counters of its push_value/pop calls

vars == <<lua, ret, hist>>

---------------------------------------------------------------------------
(* Bounds of the model *)

MaxDepth == 2       \* deepest stack a modelled native call leaves behind
MaxObjs == 1        \* userdata blocks allocated per behaviour
MaxOps == 3         \* calls in one counted run of push_value/pop
MaxFin == 2         \* finalizer runs recorded per userdata block
MantBits == 6       \* mantissa bits of the modelled Number
ExpBits == 3        \* exponent bits of the modelled Number
IntBits == 7        \* bits of the modelled c_int (RawType, StackPos)
MaxLen == 2         \* bytes in a byte string handed to push_string
MaxByte == 1        \* largest byte value used; 0 is the NUL byte
MaxArgs == 2        \* arguments of one call
MaxRefs == 2        \* references alive at once
MaxTables == 2      \* tables made by create_table

---------------------------------------------------------------------------
(* Widths and numeric conversions *)

Pow2(n) == 2 ^ n

UCharBits == 8

BitsWidth == 1 + ExpBits + MantBits

AllBits == 0 .. (Pow2(BitsWidth) - 1)

\* `x as c_uchar` for a c_int x
AsUChar(x) == x % Pow2(UCharBits)

\* `x as Bits` for a c_int x: sign extension to the width of Bits
IntAsBits(x) == x % Pow2(BitsWidth)

\* `b as c_int` for a Bits b: truncation, read as two's complement
BitsAsInt(b) ==
    LET r == b % Pow2(IntBits)
    IN  IF r >= Pow2(IntBits - 1) THEN r - Pow2(IntBits) ELSE r

\* Number::from_bits: the sign, exponent and mantissa fields of the pattern
from_bits(b) ==
    [ sign |-> b \div Pow2(ExpBits + MantBits),
      exp  |-> (b \div Pow2(MantBits)) % Pow2(ExpBits),
      mant |-> b % Pow2(MantBits) ]

\* Number::to_bits
to_bits(n) == n.sign * Pow2(ExpBits + MantBits) + n.exp * Pow2(MantBits) + n.mant

IsNaN(n) == n.exp = Pow2(ExpBits) - 1 /\ n.mant # 0

\* the one NaN the host (LuaJIT, raw.rs) keeps in a number slot: its other
\* NaN patterns tag the values that are not numbers
CanonNaN == [sign |-> 1, exp |-> Pow2(ExpBits) - 1, mant |-> Pow2(MantBits - 1)]

NumZero == [sign |-> 0, exp |-> 0, mant |-> 0]

---------------------------------------------------------------------------
(* StdType (types.rs) *)

TyNone == -1
TyNil == 0
TyBool == 1
TyLightUserData == 2
TyNumber == 3
TyString == 4
TyTable == 5
TyFunction == 6
TyUserData == 7
TySurfaceInfo == 43

---------------------------------------------------------------------------
(* Lua values *)

Nil == [k |-> "nil", v |-> 0, num |-> NumZero, nup |-> 0]
Num(n) == [k |-> "num", v |-> 0, num |-> n, nup |-> 0]
Bool(b) == [k |-> "bool", v |-> IF b THEN 1 ELSE 0, num |-> NumZero, nup |-> 0]
LightUd(p) == [k |-> "lud", v |-> p, num |-> NumZero, nup |-> 0]
FullUd(o) == [k |-> "ud", v |-> o, num |-> NumZero, nup |-> 0]
Table(t) == [k |-> "table", v |-> t, num |-> NumZero, nup |-> 0]
\* a C closure: function f with nup upvalues; the binding only ever captures
\* one number (SelfCtx::push_method), kept in num
Closure(f, n, nup) == [k |-> "func", v |-> f, num |-> n, nup |-> nup]
FieldKey(s) == [k |-> "str", v |-> s, num |-> NumZero, nup |-> 0]

\* the value an out-of-range stack position reads as (type None)
NoValue == [k |-> "none", v |-> 0, num |-> NumZero, nup |-> 0]

\* the metatable field the finalizer is stored under (c"__gc")
GcField == FieldKey(1)

---------------------------------------------------------------------------
(* The native types of the module under test.  A has drop glue, B has none *)

TypeNames == {"A", "B"}

needs_drop(T) == T = "A"

\* T::ID.as_ptr(): the address of the type's name, one per type
IdPtr(T) == IF T = "A" THEN 4096 ELSE 4160

\* T::EXPECTED_ERR
EXPECTED_ERR(T) == IF T = "A" THEN "A expected" ELSE "B expected"

\* user_type_gc::<T> as a function pointer
GcFn(T) == IF T = "A" THEN 1 ELSE 2

GcFnType(f) == IF f = 1 THEN "A" ELSE "B"

NotRegisteredMsg == "type does not have an associated type ID in this Lua state"

---------------------------------------------------------------------------
(* Host tables: a table is a function from the keys it holds to values *)

EmptyTable == [key \in {} |-> Nil]

TableGet(t, key) == IF key \in DOMAIN t THEN t[key] ELSE Nil

TablePut(t, key, val) ==
    [x \in (DOMAIN t) \cup {key} |-> IF x = key THEN val ELSE t[x]]

\* Special::Registry; a pseudo-table is held under its Special value, a
\* metatable under its type identifier
SpecialRegistry == 2

---------------------------------------------------------------------------
(* Userdata blocks.  Block o starts at BlockAddr(o); a block made by       *)
(* create_user_type is a RawUdOf<T>: the RawUd header, then the value.     *)

BlockAddr(o) == 64 * o

ValueAddr(o) == BlockAddr(o) + 16

\* a block as the host's new_userdata returns it: nothing written yet
FreshBlock ==
    [ origin |-> "new_userdata", data |-> 0, ty |-> 0, rust_ty |-> 0,
      value |-> 0, tname |-> "", mt |-> 0, fin |-> <<>>, freed |-> FALSE ]

---------------------------------------------------------------------------
(* The stack, as the host indexes it *)

top(L) == Len(L.stack)

AbsIdx(L, pos) == IF pos > 0 THEN pos ELSE top(L) + 1 + pos

ValidPos(L, pos) == AbsIdx(L, pos) \in 1 .. top(L)

At(L, pos) == IF ValidPos(L, pos) THEN L.stack[AbsIdx(L, pos)] ELSE NoValue

HostPush(L, val) == [L EXCEPT !.stack = Append(@, val)]

LUA_GLOBALSINDEX == -10002

upvalue_index(n) == (LUA_GLOBALSINDEX - 1) - n

\* ILuaBase::Push: a copy of the value at stack_pos; an upvalue pseudo-index
\* reads the running closure's upvalue, nil when it has none at that index
push_value(L, stack_pos) ==
    IF stack_pos < LUA_GLOBALSINDEX
    THEN HostPush(L, IF upvalue_index(0) - stack_pos < L.upv.nup
                     THEN Num(L.upv.num) ELSE Nil)
    ELSE HostPush(L, At(L, stack_pos))

\* a pop that removes one value too many
pop_OffByOne(L, amt) ==
    [L EXCEPT !.stack = SubSeq(@, 1, Len(@) - (IF amt < Len(@) THEN amt + 1 ELSE amt))]

pop(L, amt) == [L EXCEPT !.stack = SubSeq(@, 1, Len(@) - amt)]

push_nil(L) == HostPush(L, Nil)

\* the host canonicalizes a NaN it is handed before storing it
push_number(L, n) ==
    HostPush(L, Num(IF IsNaN(n) THEN CanonNaN ELSE n))

get_number(L, stack_pos) ==
    IF At(L, stack_pos).k = "num" THEN At(L, stack_pos).num ELSE NumZero

push_light_userdata(L, ptr) == HostPush(L, LightUd(ptr))

push_special(L, what) == HostPush(L, Table(what))

push_registry(L) == push_special(L, SpecialRegistry)

\* the host's type of a value; a full userdata carries it in its header
HostType(L, val) ==
    CASE val.k = "nil" -> TyNil
      [] val.k = "bool" -> TyBool
      [] val.k = "lud" -> TyLightUserData
      [] val.k = "num" -> TyNumber
      [] val.k = "str" -> TyString
      [] val.k = "table" -> TyTable
      [] val.k = "func" -> TyFunction
      [] val.k = "ud" -> TyUserData
      [] OTHER -> TyNone

is_type(L, stack_pos, ty) ==
    LET val == At(L, stack_pos)
    IN  \/ HostType(L, val) = ty
        \/ /\ val.k = "ud"
           /\ ty > TyUserData
           /\ L.heap[val.v].ty = ty

\* the block of the userdata at stack_pos (0 stands for the null pointer)
get_userdata(L, stack_pos) ==
    IF At(L, stack_pos).k = "ud" THEN At(L, stack_pos).v ELSE 0

raw_get(L, stack_pos) ==
    LET t == L.tables[At(L, stack_pos).v]
        key == At(L, -1)
    IN  [L EXCEPT !.stack = Append(SubSeq(@, 1, Len(@) - 1), TableGet(t, key))]

raw_set(L, stack_pos) ==
    LET tid == At(L, stack_pos).v
        val == At(L, -1)
        key == At(L, -2)
    IN  [L EXCEPT !.tables[tid] = TablePut(@, key, val),
                  !.stack = SubSeq(@, 1, Len(@) - 2)]

set_field(L, stack_pos, key) ==
    LET tid == At(L, stack_pos).v
        val == At(L, -1)
    IN  [L EXCEPT !.tables[tid] = TablePut(@, key, val),
                  !.stack = SubSeq(@, 1, Len(@) - 1)]

\* a throw_error that returns to its caller
throw_error_Returns(L, message) == [L EXCEPT !.errMsg = message]

throw_error(L, message) == [L EXCEPT !.err = "throw_error", !.errMsg = message]

arg_error(L, arg_num, message) ==
    [L EXCEPT !.err = "arg_error", !.errArg = arg_num, !.errMsg = message]

---------------------------------------------------------------------------
(* bits.rs *)

get_bits(L, stack_pos) == to_bits(get_number(L, stack_pos))

push_bits(L, i) == push_number(L, from_bits(i))

---------------------------------------------------------------------------
(* Metatables and userdata of the host *)

\* a create_metatable that makes a new metatable on every call
create_metatable_AlwaysNew(L, name) ==
    LET id == TySurfaceInfo + 1 + Cardinality({t \in DOMAIN L.tables : t > TySurfaceInfo})
    IN  [L EXCEPT !.names = [x \in (DOMAIN L.names) \cup {name} |->
                                IF x = name THEN id ELSE L.names[x]],
                  !.tables = [x \in (DOMAIN L.tables) \cup {id} |->
                                IF x = id THEN EmptyTable ELSE L.tables[x]],
                  !.stack = Append(@, Table(id)),
                  !.rv = id]

\* ILuaBase::CreateMetaTable: pushes the metatable registered under name,
\* creating it (with the next free type identifier) if there is none, and
\* returns its type identifier in rv
create_metatable(L, name) ==
    IF name \in DOMAIN L.names
    THEN [HostPush(L, Table(L.names[name])) EXCEPT !.rv = L.names[name]]
    ELSE LET id == TySurfaceInfo + 1 + Cardinality(DOMAIN L.names)
         IN  [L EXCEPT !.names = [x \in (DOMAIN L.names) \cup {name} |->
                                     IF x = name THEN id ELSE L.names[x]],
                       !.tables = [x \in (DOMAIN L.tables) \cup {id} |->
                                     IF x = id THEN EmptyTable ELSE L.tables[x]],
                       !.stack = Append(@, Table(id)),
                       !.rv = id]

\* a PushMetaTable that leaves a nil on the stack when there is no metatable
push_metatable_PushesNil(L, ty) ==
    IF \E name \in DOMAIN L.names : L.names[name] = ty
    THEN [HostPush(L, Table(ty)) EXCEPT !.rv = 1]
    ELSE [HostPush(L, Nil) EXCEPT !.rv = 0]

\* ILuaBase::PushMetaTable: pushes the metatable of type ty and returns
\* true, or returns false when there is none
push_metatable(L, ty) ==
    IF \E name \in DOMAIN L.names : L.names[name] = ty
    THEN [HostPush(L, Table(ty)) EXCEPT !.rv = 1]
    ELSE [L EXCEPT !.rv = 0]

\* ILuaBase::SetMetaTable: pops a table and makes it the metatable of the
\* value at stack_pos
set_metatable(L, stack_pos) ==
    LET target == At(L, stack_pos)
        mt == At(L, -1).v
        L1 == pop(L, 1)
    IN  IF target.k = "ud"
        THEN [L1 EXCEPT !.heap[target.v].mt = mt]
        ELSE L1

\* ILuaBase::NewUserdata: a fresh block pushed as a full userdata, its
\* address in rv; rv = 0 (null) and nothing pushed when allocation failed
new_userdata_raw(L, ok) ==
    IF ok
    THEN [L EXCEPT !.heap = Append(@, FreshBlock),
                   !.stack = Append(@, FullUd(Len(L.heap) + 1)),
                   !.rv = Len(L.heap) + 1]
    ELSE [L EXCEPT !.rv = 0]

\* ILuaBase::PushUserType: the host's own typed userdata {data, type}, with
\* the metatable of ty when there is one.  The host writes no rust_ty: the
\* bytes a RawUd reads there are whatever the block held (junk)
push_user_type_raw(L, ptr, ty, junk) ==
    LET o == Len(L.heap) + 1
        hasMt == \E name \in DOMAIN L.names : L.names[name] = ty
    IN  [L EXCEPT !.heap = Append(@, [FreshBlock EXCEPT
                                !.origin = "push_user_type_raw",
                                !.data = ptr, !.ty = AsUChar(ty),
                                !.rust_ty = junk,
                                !.mt = IF hasMt THEN ty ELSE 0]),
                  !.stack = Append(@, FullUd(o))]

\* Lua::set_user_type (ILuaBase::SetUserType): sets the data pointer of the
\* userdata at stack_pos to ptr
set_user_type(L, stack_pos, ptr) ==
    IF At(L, stack_pos).k = "ud"
    THEN [L EXCEPT !.heap[At(L, stack_pos).v].data = ptr]
    ELSE L

---------------------------------------------------------------------------
(* user_types/mod.rs: downcasting *)

\* a downcast that only asks whether the value is some full userdata
test_ud_ptr_AnyUserdata(L, ty, stack_pos) ==
    IF get_userdata(L, stack_pos) = 0 THEN 0 ELSE L.heap[get_userdata(L, stack_pos)].data

\* the pointer test_ud_ptr returns; 0 stands for None
test_ud_ptr(L, ty, stack_pos) ==
    IF ~is_type(L, stack_pos, ty)
    THEN 0
    ELSE LET o == get_userdata(L, stack_pos)
         IN  IF o = 0
             THEN 0
             ELSE LET ud == L.heap[o]
                  IN  IF ud.ty # AsUChar(ty) /\ ud.rust_ty # ty
                      THEN 0
                      ELSE ud.data

\* check_ud_ptr: the pointer in rv, or the argument error
check_ud_ptr(L, T, ty, arg) ==
    IF test_ud_ptr(L, ty, arg) # 0
    THEN [L EXCEPT !.rv = test_ud_ptr(L, ty, arg)]
    ELSE arg_error(L, arg, EXPECTED_ERR(T))

\* the block whose embedded value lives at ptr (0 when ptr is no such address)
BlockOf(L, ptr) ==
    IF \E o \in 1 .. Len(L.heap) : ValueAddr(o) = ptr
    THEN CHOOSE o \in 1 .. Len(L.heap) : ValueAddr(o) = ptr
    ELSE 0

---------------------------------------------------------------------------
(* lua.rs: closures;  user_types/func.rs: SelfCtx and MethodFuncCtx *)

\* ILuaBase::PushCClosure: pops n_upvalues values and pushes the closure
\* that captured them
push_c_closure(L, func, n_upvalues) ==
    IF n_upvalues = 0
    THEN HostPush(L, Closure(func, NumZero, 0))
    ELSE [L EXCEPT !.stack = Append(SubSeq(@, 1, Len(@) - 1),
                                   Closure(func, At(L, -1).num, 1))]

push_closure(L, f, n_upvalues) == push_c_closure(L, f, n_upvalues)

push_upvalue(L, n) == push_value(L, upvalue_index(n))

\* SelfCtx::push_method for a context whose self_ty is ty
push_method(L, ty, f) == push_closure(push_bits(L, IntAsBits(ty)), f, 1)

\* MethodFuncCtx::lua: the self_ty of the context it builds ...
MethodFuncCtx_ty(L) == BitsAsInt(get_bits(push_upvalue(L, 0), -1))

\* ... and the Lua state it leaves
MethodFuncCtx_lua(L) == pop(push_upvalue(L, 0), 1)

---------------------------------------------------------------------------
(* user_types/mod.rs: finalization *)

\* T::collect followed by drop_in_place on the value at ptr
Finalize(L, ptr) ==
    LET o == BlockOf(L, ptr)
    IN  IF o = 0
        THEN [L EXCEPT !.wild = TRUE]
        ELSE [L EXCEPT !.heap[o].fin = @ \o <<"collect", "drop">>]

\* a user_type_gc that finalizes whatever userdata it is given
user_type_gc_Unchecked(L, T) ==
    LET L1 == MethodFuncCtx_lua(L)
        o == get_userdata(L1, 1)
    IN  IF o = 0
        THEN arg_error(L1, 1, EXPECTED_ERR(T))
        ELSE [Finalize(L1, L1.heap[o].data) EXCEPT !.rv = 0]

\* user_type_gc::<T>, run in the frame the host built for the call
user_type_gc(L, T) ==
    LET ty == MethodFuncCtx_ty(L)
        L1 == MethodFuncCtx_lua(L)
        L2 == check_ud_ptr(L1, T, ty, 1)
    IN  IF L2.err # ""
        THEN L2
        ELSE [Finalize(L2, L2.rv) EXCEPT !.rv = 0]

\* the host calling closure fn with the arguments args: the callee runs on a
\* frame of its own; an error it raises is left in err for the caller
CallGcClosure(L, fn, args) ==
    LET frame == [L EXCEPT !.stack = args, !.upv = fn]
        done == user_type_gc(frame, GcFnType(fn.v))
    IN  [done EXCEPT !.stack = L.stack, !.upv = L.upv]

\* the finalizer stored in the metatable of type ty, nil when there is none
GcOf(L, ty) == IF ty \in DOMAIN L.tables THEN TableGet(L.tables[ty], GcField) ELSE Nil

---------------------------------------------------------------------------
(* user_types/mod.rs: instances *)

\* a create_user_type that stamps the address of the block, not of the value
create_user_type_HeaderPtr(L, T, ty, value, ok) ==
    LET L1 == new_userdata_raw(L, ok)
        o == L1.rv
    IN  IF o = 0
        THEN L1
        ELSE LET L2 == [L1 EXCEPT !.heap[o].value = value,
                                  !.heap[o].tname = T,
                                  !.heap[o].origin = "create_user_type",
                                  !.heap[o].data = BlockAddr(o),
                                  !.heap[o].ty = AsUChar(ty),
                                  !.heap[o].rust_ty = ty]
                 L3 == push_metatable(L2, ty)
                 L4 == IF L3.rv = 1 THEN set_metatable(L3, -2) ELSE L3
             IN  [L4 EXCEPT !.rv = BlockAddr(o)]

\* create_user_type with an init closure that writes value; rv is the
\* pointer returned (0 for None).  ok is whether the host could allocate
\* how the caller's init closure may end: it returns having written the
\* value, or it unwinds
InitExits == {"returns", "unwinds"}

\* a create_user_type that stamps the header and attaches the metatable
\* before it runs init
create_user_type_init_MtFirst(L, T, ty, value, ok, exit) ==
    LET L1 == new_userdata_raw(L, ok)
        o == L1.rv
    IN  IF o = 0
        THEN L1
        ELSE LET L2 == [L1 EXCEPT !.heap[o].origin = "create_user_type",
                                  !.heap[o].data = ValueAddr(o),
                                  !.heap[o].ty = AsUChar(ty),
                                  !.heap[o].rust_ty = ty]
                 L3 == push_metatable(L2, ty)
                 L4 == IF L3.rv = 1 THEN set_metatable(L3, -2) ELSE L3
             IN  IF exit = "unwinds"
                 THEN [L4 EXCEPT !.err = "panic", !.rv = 0]
                 ELSE [L4 EXCEPT !.heap[o].value = value, !.heap[o].tname = T,
                                 !.rv = ValueAddr(o)]

\* a create_user_type that goes on after a null allocation
create_user_type_init_NoNullCheck(L, T, ty, value, ok, exit) ==
    LET L1 == new_userdata_raw(L, ok)
        L3 == push_metatable(L1, ty)
    IN  [L3 EXCEPT !.rv = 0]

\* Lua::create_user_type with the exit of init as a parameter: allocation,
\* null check, init, header, metatable, in the order of the code.  An init
\* that unwinds leaves the function before anything else is written
create_user_type_init(L, T, ty, value, ok, exit) ==
    LET L1 == new_userdata_raw(L, ok)
        o == L1.rv
    IN  IF o = 0
        THEN L1
        ELSE IF exit = "unwinds"
        THEN [L1 EXCEPT !.err = "panic", !.rv = 0]
        ELSE LET L2 == [L1 EXCEPT !.heap[o].value = value,
                                  !.heap[o].tname = T,
                                  !.heap[o].origin = "create_user_type",
                                  !.heap[o].data = ValueAddr(o),
                                  !.heap[o].ty = AsUChar(ty),
                                  !.heap[o].rust_ty = ty]
                 L3 == push_metatable(L2, ty)
                 L4 == IF L3.rv = 1 THEN set_metatable(L3, -2) ELSE L3
             IN  [L4 EXCEPT !.rv = ValueAddr(o)]

\* Lua::create_user_type with an init that returns
create_user_type(L, T, ty, value, ok) ==
    create_user_type_init(L, T, ty, value, ok, "returns")

push_user_type(L, T, ty, value, ok) == create_user_type(L, T, ty, value, ok)

---------------------------------------------------------------------------
(* user_types/mod.rs: registration *)

\* a registry key that is the same for every type
push_registry_key_Shared(L, T) == push_light_userdata(L, IdPtr("A"))

push_registry_key(L, T) == push_light_userdata(L, IdPtr(T))

\* T::init_metatable: the caller's hook; here one that leaves the stack as
\* it found it.  hooks records what each call of the hook was given: the
\* self_ty of its context, the value on top of the stack, registry[key_T]
\* and the __gc field of the metatable of self_ty at that moment
init_metatable(L, T, ty) ==
    [L EXCEPT !.hooks = Append(@, [ T |-> T, self_ty |-> ty, on_top |-> At(L, -1),
                                    entry |-> TableGet(L.tables[SpecialRegistry],
                                                       LightUd(IdPtr(T))),
                                    gc |-> GcOf(L, ty) ])]

\* a register that installs the finalizer whatever the type
register_AlwaysGc(L, T) ==
    LET L1 == create_metatable(L, T)
        ty == L1.rv
        L2 == push_registry(L1)
        L3 == push_registry_key(L2, T)
        L4 == push_bits(L3, IntAsBits(ty))
        L5 == raw_set(L4, -3)
        L6 == pop(L5, 1)
        L7 == set_field(push_method(L6, ty, GcFn(T)), -2, GcField)
        L8 == init_metatable(L7, T, ty)
    IN  [L8 EXCEPT !.rv = ty]

\* a register that runs the hook on the fresh metatable, before the
\* registry entry and the finalizer are in place
register_HookFirst(L, T) ==
    LET L1 == create_metatable(L, T)
        ty == L1.rv
        L2 == init_metatable(L1, T, ty)
        L3 == push_registry(L2)
        L4 == push_registry_key(L3, T)
        L5 == push_bits(L4, IntAsBits(ty))
        L6 == raw_set(L5, -3)
        L7 == pop(L6, 1)
        L8 == IF needs_drop(T)
              THEN set_field(push_method(L7, ty, GcFn(T)), -2, GcField)
              ELSE L7
    IN  [L8 EXCEPT !.rv = ty]

\* a register that does not pop the registry table
register_KeepsRegistry(L, T) ==
    LET L1 == create_metatable(L, T)
        ty == L1.rv
        L2 == push_registry(L1)
        L3 == push_registry_key(L2, T)
        L4 == push_bits(L3, IntAsBits(ty))
        L5 == raw_set(L4, -3)
        L7 == IF needs_drop(T)
              THEN set_field(push_method(L5, ty, GcFn(T)), -2, GcField)
              ELSE L5
        L8 == init_metatable(L7, T, ty)
    IN  [L8 EXCEPT !.rv = ty]

\* register::<T>; rv is the Type returned
register(L, T) ==
    LET L1 == create_metatable(L, T)
        ty == L1.rv
        L2 == push_registry(L1)
        L3 == push_registry_key(L2, T)
        L4 == push_bits(L3, IntAsBits(ty))
        L5 == raw_set(L4, -3)
        L6 == pop(L5, 1)
        L7 == IF needs_drop(T)
              THEN set_field(push_method(L6, ty, GcFn(T)), -2, GcField)
              ELSE L6
        L8 == init_metatable(L7, T, ty)
    IN  [L8 EXCEPT !.rv = ty]

\* a user_type_of that reads the identifier without looking at what it found
user_type_of_Unchecked(L, T) ==
    LET L1 == push_registry(L)
        L2 == push_registry_key(L1, T)
        L3 == raw_get(L2, -2)
    IN  [pop(L3, 1) EXCEPT !.rv = BitsAsInt(get_bits(L3, -1))]

\* user_type_of::<T>; rv is the Type returned, unless err is set
user_type_of(L, T) ==
    LET L1 == push_registry(L)
        L2 == push_registry_key(L1, T)
        L3 == raw_get(L2, -2)
    IN  IF ~is_type(L3, -1, TyNumber)
        THEN throw_error(L3, NotRegisteredMsg)
        ELSE [pop(L3, 1) EXCEPT !.rv = BitsAsInt(get_bits(L3, -1))]

---------------------------------------------------------------------------
(* lua.rs: set_top *)

RECURSIVE PushNils(_, _)
PushNils(L, n) == IF n = 0 THEN L ELSE PushNils(push_nil(L), n - 1)

\* a set_top that pads with n nils, whatever the depth
set_top_PushesN(L, n) ==
    LET current_top == top(L)
    IN  IF n >= current_top
        THEN PushNils(L, n)
        ELSE pop(L, current_top - n)

set_top(L, n) ==
    LET current_top == top(L)
    IN  IF n >= current_top
        THEN PushNils(L, n - current_top)
        ELSE pop(L, current_top - n)

---------------------------------------------------------------------------
(* lua.rs: strings.  A Lua string is interned by the host: the value holds *)
(* the identity of its byte sequence.                                      *)

RECURSIVE SeqsUpTo(_)
\* the byte sequences of at most n bytes
SeqsUpTo(n) ==
    IF n = 0
    THEN {<<>>}
    ELSE SeqsUpTo(n - 1) \cup
         {Append(b, x) : b \in {c \in SeqsUpTo(n - 1) : Len(c) = n - 1}, x \in 0 .. MaxByte}

ByteStrings == SeqsUpTo(MaxLen)

RECURSIVE StrCode(_)
StrCode(bytes) ==
    IF bytes = <<>>
    THEN 0
    ELSE StrCode(SubSeq(bytes, 1, Len(bytes) - 1)) * (MaxByte + 2) + bytes[Len(bytes)] + 1

\* the interned string with these bytes
StrId(bytes) == 16 + StrCode(bytes)

RECURSIVE CodeBytes(_)
CodeBytes(c) ==
    IF c <= 0 THEN <<>> ELSE Append(CodeBytes(c \div (MaxByte + 2)), (c % (MaxByte + 2)) - 1)

\* the bytes of an interned string
StrBytes(id) == CodeBytes(id - 16)

Str(bytes) == FieldKey(StrId(bytes))

\* the text the host formats a number as, interned; its bytes are not modelled
NumText(n) == FieldKey(0 - 1 - to_bits(n))

\* strlen: the bytes before the first NUL of the memory at a pointer
strlen(mem) ==
    IF \E i \in 1 .. Len(mem) : mem[i] = 0
    THEN (CHOOSE i \in 1 .. Len(mem) : mem[i] = 0 /\ \A j \in 1 .. (i - 1) : mem[j] # 0) - 1
    ELSE Len(mem)

\* the caller's buffer and the literal c"" of the binding
CallerBuf == 512
EmptyLiteral == 768

\* ILuaBase::PushString(val, len): the len bytes at val, or, when len is 0,
\* the bytes up to the first NUL.  mem is the memory readable at val; rv
\* records the pointer the host was handed
HostPushString(L, val, mem, len) ==
    LET n == IF len = 0 THEN strlen(mem) ELSE len
    IN  [HostPush(L, Str(SubSeq(mem, 1, n))) EXCEPT !.rv = val]

\* the memory at the pointer of a slice: its bytes, then whatever follows
push_non_empty_bytes(L, non_empty_bytes, after) ==
    HostPushString(L, CallerBuf, non_empty_bytes \o after, Len(non_empty_bytes))

\* a push_string that hands every slice to the host as it is
push_string_AsIs(L, bytes, after) ==
    HostPushString(L, CallerBuf, bytes \o after, Len(bytes))

push_string(L, bytes, after) ==
    IF bytes # <<>>
    THEN push_non_empty_bytes(L, bytes, after)
    ELSE HostPushString(L, EmptyLiteral, <<0>>, 0)

\* ILuaBase::GetString: the string at stack_pos, a number there being
\* converted to a string in place; rv is the string (0 for a null pointer)
get_string(L, stack_pos) ==
    LET val == At(L, stack_pos)
    IN  CASE val.k = "str" -> [L EXCEPT !.rv = val.v]
          [] val.k = "num" ->
                [L EXCEPT !.stack[AbsIdx(L, stack_pos)] = NumText(val.num),
                          !.rv = NumText(val.num).v]
          [] OTHER -> [L EXCEPT !.rv = 0]

---------------------------------------------------------------------------
(* Number arithmetic (`a + b` of c_double), at the modelled width: round   *)
(* to nearest, ties to even                                                *)

MaxExp == Pow2(ExpBits) - 1

IsInf(n) == n.exp = MaxExp /\ n.mant = 0

\* the magnitude of a finite number in units of the smallest denormal
Mag(n) == IF n.exp = 0 THEN n.mant ELSE (Pow2(MantBits) + n.mant) * Pow2(n.exp - 1)

Signed(n) == IF n.sign = 1 THEN 0 - Mag(n) ELSE Mag(n)

Infinity(sign) == [sign |-> sign, exp |-> MaxExp, mant |-> 0]

\* the number nearest to the magnitude x (in units of the smallest denormal)
Rounded(sign, x) ==
    IF x < Pow2(MantBits + 1)
    THEN [sign |-> sign, exp |-> IF x < Pow2(MantBits) THEN 0 ELSE 1,
          mant |-> x % Pow2(MantBits)]
    ELSE LET e == CHOOSE c \in 2 .. (MaxExp + 1) :
                      Pow2(MantBits + c - 1) <= x /\ x < Pow2(MantBits + c)
             q == x \div Pow2(e - 1)
             r == x % Pow2(e - 1)
             up == r > Pow2(e - 2) \/ (r = Pow2(e - 2) /\ q % 2 = 1)
             q1 == IF up THEN q + 1 ELSE q
             e1 == IF q1 = Pow2(MantBits + 1) THEN e + 1 ELSE e
         IN  IF e1 >= MaxExp
             THEN Infinity(sign)
             ELSE [sign |-> sign, exp |-> e1,
                   mant |-> IF q1 = Pow2(MantBits + 1) THEN 0 ELSE q1 % Pow2(MantBits)]

NumAdd(a, b) ==
    CASE IsNaN(a) \/ IsNaN(b) -> CanonNaN
      [] IsInf(a) /\ IsInf(b) -> IF a.sign = b.sign THEN a ELSE CanonNaN
      [] IsInf(a) -> a
      [] IsInf(b) -> b
      [] OTHER ->
            LET x == Signed(a) + Signed(b)
            IN  IF x = 0
                THEN [sign |-> IF a.sign = 1 /\ b.sign = 1 THEN 1 ELSE 0, exp |-> 0, mant |-> 0]
                ELSE IF x < 0 THEN Rounded(1, 0 - x) ELSE Rounded(0, x)

\* the number with the integer value i, 0 <= i, exactly representable
NumOfNat(i) == Rounded(0, i * Pow2(MantBits + Pow2(ExpBits - 1) - 2))

---------------------------------------------------------------------------
(* Native functions and calls (func.rs, lua.rs, examples)                  *)

\* function pointers of the example modules: lua_add (hello.rs) and the
\* constructor closure of user_types.rs
LuaAddFn == 3
NewMyTypeFn == 4

\* ILuaBase::CheckNumber: a number, or a string that reads as one, passes;
\* anything else is a non-local exit
check_number(L, stack_pos) ==
    LET val == At(L, stack_pos)
    IN  IF val.k = "num" \/ (val.k = "str" /\ val.v < 0)
        THEN L
        ELSE [L EXCEPT !.err = "type_error", !.errArg = stack_pos,
                       !.errMsg = "number expected"]

\* the Number check_number returned
checked_number(L, stack_pos) ==
    LET val == At(L, stack_pos)
    IN  IF val.k = "num" THEN val.num ELSE from_bits(0 - 1 - val.v)

push_function(L, f) == HostPush(L, Closure(f, NumZero, 0))

\* a lua_add that returns the sum without counting it as a result
lua_add_NoResult(L) ==
    LET L1 == check_number(L, 1)
        L2 == check_number(L1, 2)
    IN  IF L1.err # "" THEN L1
        ELSE IF L2.err # "" THEN L2
        ELSE [push_number(L2, NumAdd(checked_number(L, 1), checked_number(L, 2)))
                EXCEPT !.rv = 0]

\* hello.rs: lua_add; rv is the result count
lua_add(L) ==
    LET L1 == check_number(L, 1)
        L2 == check_number(L1, 2)
    IN  IF L1.err # "" THEN L1
        ELSE IF L2.err # "" THEN L2
        ELSE [push_number(L2, NumAdd(checked_number(L, 1), checked_number(L, 2)))
                EXCEPT !.rv = 1]

\* user_types.rs: the constructor of MyType (type A); its value is built
\* from its two arguments, kept here as the first one's mantissa
new_my_type(L) ==
    LET L1 == check_number(L, 1)
        L2 == check_number(L1, 2)
        L3 == user_type_of(L2, "A")
    IN  IF L1.err # "" THEN L1
        ELSE IF L2.err # "" THEN L2
        ELSE IF L3.err # "" THEN L3
        ELSE [push_user_type(L3, "A", L3.rv, checked_number(L, 1).mant, TRUE)
                EXCEPT !.rv = 1]

\* the body of the function a closure holds, run in its own frame
RunFunc(frame, f) ==
    CASE f = LuaAddFn -> lua_add(frame)
      [] f = NewMyTypeFn -> new_my_type(frame)
      [] OTHER -> user_type_gc(frame, GcFnType(f))

\* the value the host raises for a non-local exit of the binding
ErrorValue(err) ==
    CASE err = "throw_error" -> FieldKey(2)
      [] err = "arg_error" -> FieldKey(3)
      [] err = "type_error" -> FieldKey(4)
      [] err = "not_callable" -> FieldKey(5)
      [] OTHER -> FieldKey(6)

\* results adjusted to the count the caller asked for
Adjusted(results, n_results) ==
    [i \in 1 .. n_results |-> IF i <= Len(results) THEN results[i] ELSE Nil]

LUA_ERRRUN == 2
LUA_ERRERR == 5

\* the callable below the n_args arguments, run on a frame of its own: the
\* state it ended in, err telling how (a value that is no function cannot
\* be called)
Called(L, n_args) ==
    LET fn == At(L, 0 - n_args - 1)
        args == SubSeq(L.stack, top(L) - n_args + 1, top(L))
        frame == [L EXCEPT !.stack = args, !.upv = fn, !.rv = 0]
    IN  IF fn.k = "func"
        THEN RunFunc(frame, fn.v)
        ELSE [frame EXCEPT !.err = "not_callable"]

\* the error handler run on the error value of the failed call done; a
\* handler that is no function cannot be called
Handled(done, handler) ==
    IF handler.k = "func"
    THEN RunFunc([done EXCEPT !.stack = <<ErrorValue(done.err)>>,
                              !.upv = handler, !.rv = 0,
                              !.err = "", !.errArg = 0, !.errMsg = ""],
                 handler.v)
    ELSE [done EXCEPT !.err = "not_callable"]

\* the caller's state after a protected call: below are the values under
\* the callable, done is how the call ended, handled how the handler did
PCallEnd(L, below, done, handled, n_results, error_func) ==
    IF done.err = ""
    THEN [done EXCEPT !.upv = L.upv,
                      !.stack = below \o Adjusted(SubSeq(done.stack, top(done) - done.rv + 1,
                                                         top(done)),
                                                  n_results),
                      !.rv = 0]
    ELSE IF error_func = 0
    THEN [done EXCEPT !.upv = L.upv, !.err = "", !.errArg = 0, !.errMsg = "",
                      !.stack = Append(below, ErrorValue(done.err)), !.rv = LUA_ERRRUN]
    ELSE IF handled.err = "" /\ handled.rv >= 1
    THEN [handled EXCEPT !.upv = L.upv,
                         !.stack = Append(below, handled.stack[top(handled) - handled.rv + 1]),
                         !.rv = LUA_ERRRUN]
    ELSE IF handled.err = ""
    THEN [handled EXCEPT !.upv = L.upv, !.stack = Append(below, Nil), !.rv = LUA_ERRRUN]
    ELSE [done EXCEPT !.upv = L.upv, !.err = "", !.errArg = 0, !.errMsg = "",
                      !.stack = Append(below, ErrorValue("")), !.rv = LUA_ERRERR]

\* ILuaBase::PCall: the callable and its arguments are replaced by the
\* results, or by one error value (what the handler at error_func made of
\* it, when there is one); rv is the status
HostPCall(L, n_args, n_results, error_func) ==
    PCallEnd(L, SubSeq(L.stack, 1, top(L) - n_args - 1),
             Called(L, n_args),
             Handled(Called(L, n_args), At(L, error_func)),
             n_results, error_func)

\* a pcall that takes only a runtime error for a failure
pcall_OnlyErrRun(L, n_args, n_results, error_func) ==
    LET L1 == HostPCall(L, n_args, n_results, error_func)
    IN  [L1 EXCEPT !.rv = IF L1.rv = LUA_ERRRUN THEN 1 ELSE 0]

\* Lua::pcall; rv is 0 for Ok(()) and 1 for Err(CallError)
pcall(L, n_args, n_results, error_func) ==
    LET L1 == HostPCall(L, n_args, n_results, error_func)
    IN  [L1 EXCEPT !.rv = IF L1.rv = 0 THEN 0 ELSE 1]

---------------------------------------------------------------------------
(* lua.rs: references.  The host keeps the referenced values under integer *)
(* handles; refs maps the valid handles to their values.                   *)

ValidRef(L, h) == h \in DOMAIN L.refs

\* the handle ILuaBase::ReferenceCreate hands out: the lowest one not in use
FreeHandle(L) == CHOOSE h \in 1 .. (Cardinality(DOMAIN L.refs) + 1) : ~ValidRef(L, h)

\* a create_ref that leaves the value on the stack
create_ref_NoPop(L) ==
    LET h == FreeHandle(L)
    IN  [L EXCEPT !.refs = [x \in (DOMAIN L.refs) \cup {h} |->
                               IF x = h THEN At(L, -1) ELSE L.refs[x]],
                  !.rv = h]

\* Lua::create_ref: pops a value and returns a Ref to it (in rv)
create_ref(L) ==
    LET h == FreeHandle(L)
    IN  [L EXCEPT !.refs = [x \in (DOMAIN L.refs) \cup {h} |->
                               IF x = h THEN At(L, -1) ELSE L.refs[x]],
                  !.stack = SubSeq(@, 1, Len(@) - 1),
                  !.rv = h]

\* Lua::push_ref: the value lua_ref points to, or nil if it is invalid
push_ref(L, lua_ref) ==
    HostPush(L, IF ValidRef(L, lua_ref) THEN L.refs[lua_ref] ELSE Nil)

\* Lua::free_ref: frees lua_ref if it is valid
free_ref(L, lua_ref) ==
    [L EXCEPT !.refs = [x \in (DOMAIN L.refs) \ {lua_ref} |-> L.refs[x]]]

---------------------------------------------------------------------------
(* lua.rs: equality.  Lua::equal compares as the language does, so it may  *)
(* run the __eq metamethod of its operands; Lua::raw_equal does not.       *)

\* the metatable field an equality handler is stored under ("__eq")
EqField == FieldKey(7)

\* a function written in Lua, as a script stores it in a metatable
ScriptFn == 5

ScriptEffects == {"none", "__gc", "collectgarbage"}

NumEq(a, b) == ~IsNaN(a) /\ ~IsNaN(b) /\ (a = b \/ (Mag(a) = 0 /\ Mag(b) = 0))

\* equality of two values without metamethods
RawEq(x, y) ==
    IF x.k = "num" /\ y.k = "num" THEN NumEq(x.num, y.num) ELSE x.k # "none" /\ x = y

raw_equal(L, a, b) == [L EXCEPT !.rv = IF RawEq(At(L, a), At(L, b)) THEN 1 ELSE 0]

\* field of the metatable of a userdata, nil for any other value
MetaField(L, val, field) ==
    IF val.k = "ud" /\ L.heap[val.v].mt \in DOMAIN L.tables /\ L.heap[val.v].mt # 0
    THEN TableGet(L.tables[L.heap[val.v].mt], field)
    ELSE Nil

\* block o is referenced from the stack or from a reference
Reachable(L, o) ==
    \/ \E i \in 1 .. top(L) : L.stack[i] = FullUd(o)
    \/ \E h \in DOMAIN L.refs : L.refs[h] = FullUd(o)

\* the collector reclaiming block o: its finalizer runs, then it is freed
Reclaimed(L, o) ==
    LET fn == GcOf(L, L.heap[o].mt)
        L1 == IF fn.k = "func" THEN CallGcClosure(L, fn, <<FullUd(o)>>) ELSE L
    IN  [L1 EXCEPT !.err = "", !.errArg = 0, !.errMsg = "", !.rv = 0,
                   !.heap[o] = [FreshBlock EXCEPT !.freed = TRUE,
                                                  !.fin = L1.heap[o].fin,
                                                  !.tname = L1.heap[o].tname]]

RECURSIVE CollectFrom(_, _)
\* a full collection cycle over the blocks o, o + 1, ...
CollectFrom(L, o) ==
    IF o > Len(L.heap)
    THEN L
    ELSE CollectFrom(IF ~L.heap[o].freed /\ ~Reachable(L, o) THEN Reclaimed(L, o) ELSE L,
                     o + 1)

\* the host running a scripted function on the arguments args; effect is
\* what the script chose to do: nothing, `getmetatable(a).__gc(a)` on its
\* first argument, or `collectgarbage()`
RunScript(L, args, effect) ==
    LET fn == MetaField(L, args[1], GcField)
        L1 == CASE effect = "__gc" /\ fn.k = "func" -> CallGcClosure(L, fn, <<args[1]>>)
                [] effect = "collectgarbage" -> CollectFrom(L, 1)
                [] OTHER -> L
    IN  [L1 EXCEPT !.ran = "script"]

\* Lua::equal (ILuaBase::Equal): two userdata that are not the same object
\* and share an __eq handler are compared by calling it; answer is what the
\* handler returned
equal(L, a, b, effect, answer) ==
    LET x == At(L, a)
        y == At(L, b)
        h == MetaField(L, x, EqField)
    IN  IF RawEq(x, y)
        THEN [L EXCEPT !.rv = 1]
        ELSE IF x.k = "ud" /\ y.k = "ud" /\ h.k = "func" /\ h = MetaField(L, y, EqField)
             THEN LET L1 == RunScript(L, <<x, y>>, effect)
                  IN  IF L1.err # "" THEN L1 ELSE [L1 EXCEPT !.rv = IF answer THEN 1 ELSE 0]
             ELSE [L EXCEPT !.rv = 0]

---------------------------------------------------------------------------
(* func.rs: Rets, the number of values a function returns                  *)

\* c_int::MAX at the width of the model
C_INT_MAX == Pow2(IntBits - 1) - 1

\* usize is wider than c_int
UsizeValues == 0 .. (Pow2(IntBits + 1) - 1)

\* `n as c_int`: the low bits of n read as a signed integer
usize_as_c_int(n) ==
    LET m == n % Pow2(IntBits)
    IN  IF m >= Pow2(IntBits - 1) THEN m - Pow2(IntBits) ELSE m

\* Rets::new_unchecked: the count as given
Rets_new_unchecked(count) == count

\* a Rets::new that casts without the range check
Rets_new_Unranged(n) == Rets_new_unchecked(usize_as_c_int(n))

\* Rets::new
Rets_new(n) ==
    Rets_new_unchecked(IF n <= C_INT_MAX THEN usize_as_c_int(n) ELSE 0)

\* Rets::ZERO
Rets_ZERO == Rets_new(0)

\* impl From<()> for Rets
Rets_from_unit == Rets_ZERO

\* impl From<usize> for Rets
Rets_from_usize(value) == Rets_new(value)

---------------------------------------------------------------------------
(* lua.rs: tables made by the module, and set_int                          *)

\* the tables create_table made: they are held under the identifiers
\* between the pseudo-tables and the metatables
PlainTables(L) == {t \in DOMAIN L.tables : SpecialRegistry < t /\ t <= TySurfaceInfo}

\* ILuaBase::CreateTable: pushes a new empty table
create_table(L) ==
    LET id == SpecialRegistry + 1 + Cardinality(PlainTables(L))
    IN  [L EXCEPT !.tables = [x \in (DOMAIN L.tables) \cup {id} |->
                                 IF x = id THEN EmptyTable ELSE L.tables[x]],
                  !.stack = Append(@, Table(id))]

\* ILuaBase::Insert: moves the top value into stack_pos, shifting the values
\* from there on upwards
insert(L, stack_pos) ==
    LET p == AbsIdx(L, stack_pos)
        n == top(L)
    IN  [L EXCEPT !.stack = [j \in 1 .. n |->
                                IF j < p THEN L.stack[j]
                                ELSE IF j = p THEN L.stack[n]
                                ELSE L.stack[j - 1]]]

\* what the host may do when told to index a slot outside the frame: the
\* slot holds no table and it raises, or it assigns into a table that is
\* not the caller's
WildOutcomes == {"raise", "stray"}

\* ILuaBase::SetTable: t[key] = value for the t at stack_pos, key just below
\* the top and value on top; both are popped.  A value that is no table
\* cannot be indexed: the host raises
set_table(L, stack_pos, outcome) ==
    LET t == At(L, stack_pos)
    IN  IF t.k = "table"
        THEN [L EXCEPT !.tables[t.v] = TablePut(@, At(L, -2), At(L, -1)),
                       !.stack = SubSeq(@, 1, Len(@) - 2)]
        ELSE IF t.k = "none" /\ outcome = "stray"
        THEN [L EXCEPT !.wild = TRUE, !.stack = SubSeq(@, 1, Len(@) - 2)]
        ELSE [L EXCEPT !.err = "host_error", !.errArg = 0, !.errMsg = "attempt to index"]

\* StackPos::saturating_sub_unsigned
saturating_sub_unsigned(x, n) ==
    IF x - n < 0 - Pow2(IntBits - 1) THEN 0 - Pow2(IntBits - 1) ELSE x - n

\* Lua::set_int
set_int(L, stack_pos, i, outcome) ==
    LET L1 == push_number(L, NumOfNat(i))
        L2 == insert(L1, -2)
    IN  set_table(L2, saturating_sub_unsigned(stack_pos, 2), outcome)

---------------------------------------------------------------------------
(* The state machine *)

NoRet ==
    [ op |-> "", T |-> "", ty |-> 0, pos |-> 0, res |-> "", val |-> 0,
      arg |-> 0, msg |-> "", pre |-> <<>>, top |-> 0, ran |-> "",
      hooks |-> <<>> ]

NoHist == [base |-> 0, pushes |-> 0, popped |-> 0, calls |-> 0]

\* a session after construction: an empty frame, the pseudo-tables empty, no
\* metatable registered, no userdata
InitLua ==
    [ stack |-> <<>>, upv |-> Closure(0, NumZero, 0),
      tables |-> [t \in 0 .. SpecialRegistry |-> EmptyTable],
      names |-> [x \in {} |-> 0],
      heap |-> <<>>, wild |-> FALSE, refs |-> [h \in {} |-> Nil],
      err |-> "", errArg |-> 0, errMsg |-> "", rv |-> 0, ran |-> "",
      hooks |-> <<>> ]

\* the process hosts two sessions (realms), each with a Lua state of its
\* own: lua is the first, and carries the second in its field other
InitProcess == InitLua @@ [other |-> InitLua]

Init ==
    /\ lua = InitProcess
    /\ ret = NoRet
    /\ hist = NoHist

\* what the caller of a binding method observes of the state L1 it ended in,
\* having started in L0; res is the shape of a normal return
Observed(op, T, ty, pos, L0, L1, res) ==
    [ op |-> op, T |-> T, ty |-> ty, pos |-> pos,
      res |-> IF L1.err # "" THEN L1.err ELSE res,
      val |-> IF L1.err # "" THEN 0 ELSE L1.rv,
      arg |-> L1.errArg, msg |-> L1.errMsg,
      pre |-> IF op \in {"test_ud_ptr", "check_ud_ptr", "set_top", "pcall", "lua_add",
                         "__gc"}
              THEN L0.stack ELSE <<>>,
      top |-> top(L1),
      ran |-> L1.ran,
      hooks |-> L1.hooks ]

\* a non-local exit ends the native call: the host discards its frame
Settle(L) ==
    IF L.err # ""
    THEN [L EXCEPT !.stack = <<>>, !.err = "", !.errArg = 0, !.errMsg = "", !.rv = 0,
                   !.ran = "", !.hooks = <<>>]
    ELSE [L EXCEPT !.rv = 0, !.ran = "", !.hooks = <<>>]

Fits(L) == L.err # "" \/ top(L) <= MaxDepth

Registered(T) == T \in DOMAIN lua.names

TypeOf(T) == lua.names[T]

Positions == 1 .. top(lua)

\* what the four bytes after the host's {data, type} may read as: zero, or by
\* chance the identifier the first registration was given
JunkInts == {0, TySurfaceInfo + 1}

\* the values the module embeds in its user types
Values == {4}

ResetHist(L) == [base |-> top(Settle(L)), pushes |-> 0, popped |-> 0, calls |-> 0]

Register(T) ==
    LET L1 == register(lua, T)
    IN  /\ Fits(L1)
        /\ lua' = Settle(L1)
        /\ ret' = Observed("register", T, 0, 0, lua, L1, "type")
        /\ hist' = ResetHist(L1)

UserTypeOf(T) ==
    LET L1 == user_type_of(lua, T)
    IN  /\ Fits(L1)
        /\ lua' = Settle(L1)
        /\ ret' = Observed("user_type_of", T, 0, 0, lua, L1, "type")
        /\ hist' = ResetHist(L1)

\* push_user_type in a session that holds fewer than cap userdata
PushUserTypeCap(T, value, ok, cap) ==
    /\ Registered(T)
    /\ Len(lua.heap) < cap
    /\ LET L1 == push_user_type(lua, T, TypeOf(T), value, ok)
       IN  /\ Fits(L1)
           /\ lua' = Settle(L1)
           /\ ret' = [Observed("push_user_type", T, TypeOf(T), 0, lua, L1,
                               IF L1.rv = 0 THEN "none" ELSE "some")
                        EXCEPT !.arg = value]
           /\ hist' = ResetHist(L1)

PushUserType(T, value, ok) == PushUserTypeCap(T, value, ok, MaxObjs)

\* another native module, or the host, pushes a typed userdata of its own
PushUserTypeRaw(T, junk) ==
    /\ Registered(T)
    /\ Len(lua.heap) < MaxObjs
    /\ LET L1 == push_user_type_raw(lua, 8192, TypeOf(T), junk)
       IN  /\ Fits(L1)
           /\ lua' = Settle(L1)
           /\ ret' = Observed("push_user_type_raw", T, TypeOf(T), 0, lua, L1, "ok")
           /\ hist' = ResetHist(L1)

TestUdPtr(T, pos) ==
    /\ Registered(T)
    /\ lua' = lua
    /\ ret' = [Observed("test_ud_ptr", T, TypeOf(T), pos, lua, lua,
                        IF test_ud_ptr(lua, TypeOf(T), pos) = 0 THEN "none" ELSE "some")
                 EXCEPT !.val = test_ud_ptr(lua, TypeOf(T), pos)]
    /\ hist' = ResetHist(lua)

CheckUdPtr(T, pos) ==
    /\ Registered(T)
    /\ LET L1 == check_ud_ptr(lua, T, TypeOf(T), pos)
       IN  /\ lua' = Settle(L1)
           /\ ret' = Observed("check_ud_ptr", T, TypeOf(T), pos, lua, L1, "some")
           /\ hist' = ResetHist(L1)

\* counted: the call belongs to the run of push_value/pop calls hist counts
PushValue(pos, counted) ==
    /\ counted => hist.calls < MaxOps
    /\ top(lua) < MaxDepth
    /\ lua' = push_value(lua, pos)
    /\ ret' = [Observed("push_value", "", 0, pos, lua, lua', "ok")
                 EXCEPT !.pre = IF counted THEN lua.stack ELSE <<>>]
    /\ hist' = IF counted
               THEN [hist EXCEPT !.pushes = @ + 1, !.calls = @ + 1]
               ELSE ResetHist(lua')

Pop(amt, counted) ==
    /\ counted => hist.calls < MaxOps
    /\ lua' = pop(lua, amt)
    /\ ret' = [Observed("pop", "", 0, 0, lua, lua', "ok")
                 EXCEPT !.pre = IF counted THEN lua.stack ELSE <<>>,
                        !.arg = IF counted THEN amt ELSE 0]
    /\ hist' = IF counted
               THEN [hist EXCEPT !.popped = @ + amt, !.calls = @ + 1]
               ELSE ResetHist(lua')

OnStack(o) == \E i \in 1 .. top(lua) : lua.stack[i] = FullUd(o)

\* the collector reclaims an unreachable userdata: it calls the __gc of its
\* metatable on it once, ignores an error of the finalizer, and frees it
HostCollect(o) ==
    /\ ~lua.heap[o].freed
    /\ ~Reachable(lua, o)
    /\ LET fn == GcOf(lua, lua.heap[o].mt)
           L1 == IF fn.k = "func"
                 THEN CallGcClosure(lua, fn, <<FullUd(o)>>)
                 ELSE lua
           L2 == [L1 EXCEPT !.err = "", !.errArg = 0, !.errMsg = "", !.rv = 0,
                            !.heap[o] = [FreshBlock EXCEPT !.freed = TRUE,
                                                           !.fin = L1.heap[o].fin,
                                                           !.tname = L1.heap[o].tname]]
       IN  /\ lua' = L2
           /\ ret' = [Observed("collect", "", 0, 0, lua, L1, "ok") EXCEPT !.arg = o]
           /\ hist' = ResetHist(L2)

\* scripted code calls the finalizer it read from T's metatable on the value
\* at pos, as in `getmetatable(x).__gc(x)`
ScriptCallGc(T, pos) ==
    /\ Registered(T)
    /\ GcOf(lua, TypeOf(T)).k = "func"
    /\ \A o \in 1 .. Len(lua.heap) : Len(lua.heap[o].fin) < 2 * MaxFin
    /\ LET L1 == CallGcClosure(lua, GcOf(lua, TypeOf(T)), <<At(lua, pos)>>)
       IN  /\ lua' = Settle(L1)
           /\ ret' = Observed("__gc", T, TypeOf(T), pos, lua, L1, "ok")
           /\ hist' = ResetHist(L1)

PushNil ==
    /\ top(lua) < MaxDepth
    /\ lua' = push_nil(lua)
    /\ ret' = Observed("push_nil", "", 0, 0, lua, lua', "ok")
    /\ hist' = ResetHist(lua')

PushBits(i) ==
    /\ top(lua) < MaxDepth
    /\ lua' = push_bits(lua, i)
    /\ ret' = [Observed("push_bits", "", 0, 0, lua, lua', "ok") EXCEPT !.arg = i]
    /\ hist' = ResetHist(lua')

GetBits(pos) ==
    /\ ret.op = "push_bits"
    /\ lua' = lua
    /\ ret' = [Observed("get_bits", "", 0, pos, lua, lua, "ok")
                 EXCEPT !.arg = ret.arg, !.val = get_bits(lua, pos)]
    /\ hist' = hist

SetTop(n) ==
    /\ lua' = set_top(lua, n)
    /\ ret' = [Observed("set_top", "", 0, 0, lua, lua', "ok") EXCEPT !.arg = n]
    /\ hist' = ResetHist(lua')

\* what may follow a slice in memory, up to the next NUL
AfterBytes == {<<0>>, <<1, 0>>}

PushString(bytes, after) ==
    /\ top(lua) < MaxDepth
    /\ LET L1 == push_string(lua, bytes, after)
       IN  /\ lua' = Settle(L1)
           /\ ret' = [Observed("push_string", "", 0, 0, lua, L1, "ok")
                        EXCEPT !.arg = StrId(bytes)]
           /\ hist' = ResetHist(L1)

GetString(pos) ==
    LET L1 == get_string(lua, pos)
    IN  /\ lua' = Settle(L1)
        /\ ret' = Observed("get_string", "", 0, pos, lua, L1,
                           IF L1.rv = 0 THEN "none" ELSE "some")
        /\ hist' = ResetHist(L1)

\* what a script or a native caller puts on the stack for a call
CallValues ==
    {Nil, Num(NumOfNat(2)), Num(NumOfNat(3)),
     Closure(LuaAddFn, NumZero, 0), Closure(NewMyTypeFn, NumZero, 0)}

\* the frame holds nothing but what was put there for a call: the results of
\* an earlier call have been taken off
FreshFrame == \A i \in 1 .. top(lua) : lua.stack[i] \in CallValues

PushArg(v) ==
    /\ top(lua) < MaxArgs + 2
    /\ FreshFrame
    /\ lua' = CASE v.k = "num" -> push_number(lua, v.num)
                [] v.k = "func" -> push_function(lua, v.v)
                [] OTHER -> push_nil(lua)
    /\ ret' = Observed("push", "", 0, 0, lua, lua', "ok")
    /\ hist' = ResetHist(lua')

\* pcall by a well-formed caller: the callable and its arguments are on the
\* stack, the handler (if any) below them.  ret keeps n_args in arg,
\* n_results in pos, error_func in ty, the host's status in val and how the
\* called function ended in msg
Pcall(n_args, n_results, error_func) ==
    /\ FreshFrame
    /\ top(lua) >= n_args + 1
    /\ error_func # 0 => error_func < top(lua) - n_args
    /\ \E L1 \in {pcall(lua, n_args, n_results, error_func)} :
           /\ lua' = Settle(L1)
           /\ ret' = [Observed("pcall", "", error_func, n_results, lua, L1,
                               IF L1.rv = 0 THEN "Ok" ELSE "Err")
                        EXCEPT !.arg = n_args,
                               !.val = HostPCall(lua, n_args, n_results, error_func).rv,
                               !.msg = Called(lua, n_args).err]
           /\ hist' = ResetHist(L1)

\* the host runs lua_add: the stack is the frame of the call, its arguments
\* at positions 1, 2, ...
LuaAdd ==
    LET L1 == lua_add(lua)
    IN  /\ FreshFrame
        /\ lua' = Settle(L1)
        /\ ret' = Observed("lua_add", "", 0, 0, lua, L1, "rets")
        /\ hist' = ResetHist(L1)

CreateRef ==
    /\ top(lua) >= 1
    /\ Cardinality(DOMAIN lua.refs) < MaxRefs
    /\ LET L1 == create_ref(lua)
       IN  /\ lua' = Settle(L1)
           /\ ret' = Observed("create_ref", "", 0, 0, lua, L1, "ref")
           /\ hist' = ResetHist(L1)

PushRef(h) ==
    /\ top(lua) < MaxDepth
    /\ LET L1 == push_ref(lua, h)
       IN  /\ lua' = Settle(L1)
           /\ ret' = [Observed("push_ref", "", 0, 0, lua, L1, "ok") EXCEPT !.arg = h]
           /\ hist' = ResetHist(L1)

FreeRef(h) ==
    LET L1 == free_ref(lua, h)
    IN  /\ lua' = Settle(L1)
        /\ ret' = [Observed("free_ref", "", 0, 0, lua, L1, "ok") EXCEPT !.arg = h]
        /\ hist' = ResetHist(L1)

\* a script, or a native module, stores an equality handler written in Lua
\* in T's metatable, as in `FindMetaTable(name).__eq = function(a, b) ... end`
SetEqHandler(T) ==
    /\ Registered(T)
    /\ lua' = [lua EXCEPT !.tables[TypeOf(T)] = TablePut(@, EqField, Closure(ScriptFn, NumZero, 0))]
    /\ ret' = Observed("__eq", T, TypeOf(T), 0, lua, lua', "ok")
    /\ hist' = ResetHist(lua')

Equal(a, b, effect, answer) ==
    /\ \A o \in 1 .. Len(lua.heap) : Len(lua.heap[o].fin) < 2 * MaxFin
    /\ LET L1 == equal(lua, a, b, effect, answer)
       IN  /\ lua' = Settle(L1)
           /\ ret' = Observed("equal", "", 0, a, lua, L1, "bool")
           /\ hist' = ResetHist(L1)

RawEqual(a, b) ==
    LET L1 == raw_equal(lua, a, b)
    IN  /\ lua' = Settle(L1)
        /\ ret' = Observed("raw_equal", "", 0, a, lua, L1, "bool")
        /\ hist' = ResetHist(L1)

\* addresses of values of the module's types that live outside the Lua heap
ForeignPtrs == {8192}

SetUserType(pos, ptr) ==
    LET L1 == set_user_type(lua, pos, ptr)
    IN  /\ lua' = Settle(L1)
        /\ ret' = [Observed("set_user_type", "", 0, pos, lua, L1, "ok") EXCEPT !.arg = ptr]
        /\ hist' = ResetHist(L1)

\* a context that yields the first session's state in every session
Session_First(s) == lua

\* the Lua state a native call in session s is given (Ctx::lua)
Session(s) == IF s = 1 THEN lua ELSE lua.other

\* the process after a call in session s left that session in state L
Stored(s, L) == IF s = 1 THEN L ELSE [lua EXCEPT !.other = L]

Sessions == {1, 2}

RegisterIn(s, T) ==
    LET L1 == register(Session(s), T)
    IN  /\ Fits(L1)
        /\ lua' = Stored(s, Settle(L1))
        /\ ret' = [Observed("register", T, 0, 0, Session(s), L1, "type") EXCEPT !.pos = s]
        /\ hist' = ResetHist(lua')

UserTypeOfIn(s, T) ==
    LET L1 == user_type_of(Session(s), T)
    IN  /\ Fits(L1)
        /\ lua' = Stored(s, Settle(L1))
        /\ ret' = [Observed("user_type_of", T, 0, 0, Session(s), L1, "type") EXCEPT !.pos = s]
        /\ hist' = ResetHist(lua')

PopIn(s, amt) ==
    /\ lua' = Stored(s, pop(Session(s), amt))
    /\ ret' = [Observed("pop", "", 0, 0, Session(s), Session(s), "ok") EXCEPT !.pos = s]
    /\ hist' = ResetHist(lua')

\* an identifier no metatable was created for
NoMetaType == TySurfaceInfo + 1 + Cardinality(TypeNames)

\* a caller of create_user_type: with T's identifier once T is registered,
\* before that with an identifier that has no metatable
CreateUserType(T, value, ok, exit) ==
    /\ Len(lua.heap) < MaxObjs + 1
    /\ top(lua) < MaxDepth
    /\ \E ty \in {IF Registered(T) THEN TypeOf(T) ELSE NoMetaType} :
       \E L1 \in {create_user_type_init(lua, T, ty, value, ok, exit)} :
          /\ lua' = Settle(L1)
          /\ ret' = [Observed("create_user_type", T, ty, 0, lua, L1,
                              IF L1.rv = 0 THEN "none" ELSE "some")
                       EXCEPT !.arg = value, !.pre = lua.stack]
          /\ hist' = ResetHist(L1)

\* a method function of the module, as gmod13_method! makes them
MethodFn == 6

\* identifiers a SelfCtx may be built with: the ends of c_int, -1 (the
\* identifier of no value), small ones and one a create_metatable gives
SampleTypes ==
    {0 - Pow2(IntBits - 1), TyNone, TyNil, TyBool, TyUserData,
     TySurfaceInfo + 1, Pow2(IntBits - 1) - 1}

\* SelfCtx::push_method on a context whose self_ty is ty
PushMethod(ty) ==
    /\ top(lua) < MaxDepth
    /\ lua' = push_method(lua, ty, MethodFn)
    /\ ret' = [Observed("push_method", "", ty, 0, lua, lua', "ok")
                 EXCEPT !.pre = lua.stack]
    /\ hist' = ResetHist(lua')

\* the host calls the method closure just pushed with the arguments args;
\* the method starts with MethodFuncCtx::lua on the frame of the call
MethodLua(args) ==
    /\ ret.op = "push_method"
    /\ \E frame \in {[lua EXCEPT !.stack = args, !.upv = At(lua, -1)]} :
          /\ ret' = [Observed("MethodFuncCtx::lua", "", ret.ty, 0, frame,
                              MethodFuncCtx_lua(frame), "ok")
                       EXCEPT !.pre = args, !.val = MethodFuncCtx_ty(frame)]
          /\ lua' = lua
          /\ hist' = hist

\* a function about to return n values
InitRets ==
    /\ lua = InitProcess
    /\ hist = NoHist
    /\ \E n \in UsizeValues : ret = [NoRet EXCEPT !.op = "returning", !.arg = n]

RetsNew ==
    /\ ret.op = "returning"
    /\ ret' = [ret EXCEPT !.op = "Rets::new", !.val = Rets_new(ret.arg)]
    /\ UNCHANGED <<lua, hist>>

RetsFromUsize ==
    /\ ret.op = "returning"
    /\ ret' = [ret EXCEPT !.op = "Rets::from(usize)", !.val = Rets_from_usize(ret.arg)]
    /\ UNCHANGED <<lua, hist>>

RetsFromUnit ==
    /\ ret.op = "returning"
    /\ ret' = [ret EXCEPT !.op = "Rets::from(())", !.arg = 0, !.val = Rets_from_unit]
    /\ UNCHANGED <<lua, hist>>

CreateTable ==
    /\ top(lua) < MaxDepth + 1
    /\ Cardinality(PlainTables(lua)) < MaxTables
    /\ lua' = create_table(lua)
    /\ ret' = Observed("create_table", "", 0, 0, lua, lua', "ok")
    /\ hist' = ResetHist(lua')

\* a caller of set_int: a table at pos, below the value on top
SetInt(pos, i, outcome) ==
    /\ top(lua) >= 2
    /\ AbsIdx(lua, pos) \in 1 .. (top(lua) - 1)
    /\ At(lua, pos).k = "table"
    /\ \E L1 \in {set_int(lua, pos, i, outcome)} :
          /\ lua' = Settle(L1)
          /\ ret' = [Observed("set_int", "", 0, pos, lua, L1, "ok") EXCEPT !.arg = i]
          /\ hist' = ResetHist(L1)

---------------------------------------------------------------------------
(* Registration, instances and downcasts *)

Next ==
    \/ \E T \in TypeNames : Register(T)
    \/ \E T \in TypeNames : UserTypeOf(T)
    \/ \E T \in TypeNames, value \in Values, ok \in BOOLEAN : PushUserType(T, value, ok)
    \/ \E T \in TypeNames, junk \in JunkInts : PushUserTypeRaw(T, junk)
    \/ \E T \in TypeNames, pos \in Positions : TestUdPtr(T, pos)
    \/ \E T \in TypeNames, pos \in Positions : CheckUdPtr(T, pos)
    \/ \E amt \in 0 .. top(lua) : Pop(amt, FALSE)

Spec == Init /\ [][Next]_vars

(* Instances and their finalization *)

NextGc ==
    \/ \E T \in TypeNames : Register(T)
    \/ \E T \in TypeNames, value \in Values, ok \in BOOLEAN : PushUserType(T, value, ok)
    \/ \E amt \in 0 .. top(lua) : Pop(amt, FALSE)
    \/ \E o \in 1 .. Len(lua.heap) : HostCollect(o)
    \/ \E T \in TypeNames, pos \in Positions : ScriptCallGc(T, pos)

SpecGc == Init /\ [][NextGc]_vars

(* The bare stack: runs of push_value/pop, and set_top *)

SampleBits == {0, 1, Pow2(BitsWidth) - 1}

NextStack ==
    \/ PushNil
    \/ \E i \in SampleBits : PushBits(i)
    \/ \E pos \in Positions \cup {-p : p \in Positions} : PushValue(pos, TRUE)
    \/ \E amt \in 0 .. top(lua) : Pop(amt, TRUE)
    \/ \E n \in 0 .. MaxDepth : SetTop(n)

SpecStack == Init /\ [][NextStack]_vars

(* Bit patterns through a number slot *)

NextBits ==
    \/ \E i \in AllBits : top(lua) = 0 /\ PushBits(i)
    \/ GetBits(-1)

SpecBits == Init /\ [][NextBits]_vars

(* Byte strings through the stack *)

NextStr ==
    \/ \E bytes \in ByteStrings, after \in AfterBytes : PushString(bytes, after)
    \/ \E pos \in Positions \cup {-1} : GetString(pos)
    \/ PushNil
    \/ \E i \in SampleBits : PushBits(i)
    \/ \E amt \in 1 .. top(lua) : Pop(amt, FALSE)

SpecStr == Init /\ [][NextStr]_vars

(* Native functions called by the host, directly and protected *)

NextCall ==
    \/ \E v \in CallValues : PushArg(v)
    \/ \E n_args \in 0 .. MaxArgs, n_results \in 0 .. MaxArgs, error_func \in 0 .. 1 :
          Pcall(n_args, n_results, error_func)
    \/ LuaAdd
    \/ \E amt \in 1 .. top(lua) : Pop(amt, FALSE)

SpecCall == Init /\ [][NextCall]_vars

(* Operations on the shared handle *)

SharedOps == {"test_ud_ptr", "check_ud_ptr", "equal", "raw_equal", "pop", "push_value"}

NextShared ==
    \/ Register("A")
    \/ \E value \in Values : PushUserTypeCap("A", value, TRUE, MaxObjs + 1)
    \/ SetEqHandler("A")
    \/ \E pos \in Positions : TestUdPtr("A", pos)
    \/ \E a, b \in Positions, effect \in ScriptEffects, answer \in BOOLEAN :
          Equal(a, b, effect, answer)
    \/ \E a, b \in Positions : RawEqual(a, b)
    \/ \E amt \in 1 .. top(lua) : Pop(amt, FALSE)

SpecShared == Init /\ [][NextShared]_vars

(* The header of a Foreign Object Record *)

NextHeader ==
    \/ \E T \in TypeNames : Register(T)
    \/ \E T \in TypeNames, value \in Values, ok \in BOOLEAN : PushUserType(T, value, ok)
    \/ \E pos \in Positions, ptr \in ForeignPtrs : SetUserType(pos, ptr)
    \/ \E T \in TypeNames, pos \in Positions : TestUdPtr(T, pos)
    \/ \E pos \in Positions : PushValue(pos, FALSE)
    \/ \E amt \in 1 .. top(lua) : Pop(amt, FALSE)

SpecHeader == Init /\ [][NextHeader]_vars

(* Two sessions of one process *)

NextSessions ==
    \/ \E s \in Sessions, T \in TypeNames : RegisterIn(s, T)
    \/ \E s \in Sessions, T \in TypeNames : UserTypeOfIn(s, T)
    \/ \E s \in Sessions : \E amt \in 1 .. top(Session(s)) : PopIn(s, amt)

SpecSessions == Init /\ [][NextSessions]_vars

(* Method closures *)

NextMethod ==
    \/ \E ty \in SampleTypes : PushMethod(ty)
    \/ \E args \in {<<>>, <<Nil>>, <<Nil, Nil>>} : MethodLua(args)
    \/ PushNil
    \/ \E amt \in 1 .. top(lua) : Pop(amt, FALSE)

SpecMethod == Init /\ [][NextMethod]_vars

(* Return counts *)

NextRets ==
    \/ RetsNew
    \/ RetsFromUsize
    \/ RetsFromUnit

SpecRets == InitRets /\ [][NextRets]_vars

(* Instances made with create_user_type *)

NextCreate ==
    \/ \E T \in TypeNames : Register(T)
    \/ \E T \in TypeNames, value \in Values, ok \in BOOLEAN, exit \in InitExits :
          CreateUserType(T, value, ok, exit)
    \/ \E amt \in 1 .. top(lua) : Pop(amt, FALSE)
    \/ \E o \in 1 .. Len(lua.heap) : HostCollect(o)

SpecCreate == Init /\ [][NextCreate]_vars

(* Tables *)

NextTable ==
    \/ CreateTable
    \/ top(lua) < MaxDepth + 1 /\ PushBits(1)
    \/ \E pos \in Positions : top(lua) < MaxDepth /\ PushValue(pos, FALSE)
    \/ \E pos \in Positions \cup {0 - p : p \in Positions}, outcome \in WildOutcomes :
          SetInt(pos, 1, outcome)
    \/ \E amt \in 1 .. top(lua) : Pop(amt, FALSE)

SpecTable == Init /\ [][NextTable]_vars

(* References *)

NextRef ==
    \/ PushNil
    \/ PushBits(1)
    \/ PushString(<<1>>, <<0>>)
    \/ \E amt \in 1 .. top(lua) : Pop(amt, FALSE)
    \/ \E n \in 0 .. MaxDepth : SetTop(n)
    \/ CreateRef
    \/ \E h \in 1 .. (MaxRefs + 1) : PushRef(h)
    \/ \E h \in 1 .. (MaxRefs + 1) : FreeRef(h)

SpecRef == Init /\ [][NextRef]_vars

---------------------------------------------------------------------------
(* Properties *)

\* the userdata block a downcast recorded in ret looked at (0 when the value
\* at that position was no full userdata)
RetBlock ==
    IF ret.pos \in 1 .. Len(ret.pre) /\ ret.pre[ret.pos].k = "ud"
    THEN ret.pre[ret.pos].v
    ELSE 0

IsDowncast == ret.op \in {"test_ud_ptr", "check_ud_ptr"}

\* the downcast in ret was applied to an instance created by
\* create_user_type/push_user_type for type T
RetInstanceOf(T) ==
    /\ IsDowncast
    /\ RetBlock # 0
    /\ lua.heap[RetBlock].origin = "create_user_type"
    /\ lua.heap[RetBlock].tname = T

RegistryEntry(T) == TableGet(lua.tables[SpecialRegistry], LightUd(IdPtr(T)))

\* C1: test_ud_ptr(ty, pos) hands back a pointer only when the narrow tag and
\* the full identifier of the userdata's header both equal ty; when either
\* differs the result is None.
C1_BothHeaderFieldsAgree ==
    (IsDowncast /\ ret.res = "some")
        => /\ RetBlock # 0
           /\ lua.heap[RetBlock].ty = AsUChar(ret.ty)
           /\ lua.heap[RetBlock].rust_ty = ret.ty

\* C2: right after push_user_type(ty_T, v) succeeds, a downcast with ty_T at
\* the new userdata yields the pointer push_user_type returned, which is the
\* header's data pointer and the address of the embedded value, and the value
\* there is v; any later downcast of such an instance with its own type
\* yields that same pointer.
C2_PushThenDowncast ==
    /\ (ret.op = "push_user_type" /\ ret.res = "some")
          => LET o == get_userdata(lua, -1)
                 L1 == check_ud_ptr(lua, ret.T, ret.ty, -1)
             IN  /\ o # 0
                 /\ test_ud_ptr(lua, ret.ty, -1) = ret.val
                 /\ L1.err = ""
                 /\ L1.rv = ret.val
                 /\ ret.val = lua.heap[o].data
                 /\ ret.val = ValueAddr(o)
                 /\ lua.heap[BlockOf(lua, ret.val)].value = ret.arg
    /\ RetInstanceOf(ret.T)
          => /\ ret.res = "some"
             /\ ret.val = lua.heap[RetBlock].data
             /\ ret.val = ValueAddr(RetBlock)
             /\ lua.heap[RetBlock].value \in Values

C2_Witness ==
    /\ ret.op = "test_ud_ptr"
    /\ RetInstanceOf(ret.T)
    /\ ret.res = "some"
    /\ lua.heap[RetBlock].value = 4

\* C3: a downcast of an instance created for type A with the identifier of
\* another registered type B: test_ud_ptr returns None and leaves the stack
\* as it was; check_ud_ptr raises arg_error with the argument index it was
\* given and B's EXPECTED_ERR, and returns no pointer.
C3_WrongTypeDowncast ==
    \A A \in TypeNames :
        (RetInstanceOf(A) /\ ret.T # A)
            => /\ ret.op = "test_ud_ptr"
                    => /\ ret.res = "none"
                       /\ ret.val = 0
                       /\ lua.stack = ret.pre
               /\ ret.op = "check_ud_ptr"
                    => /\ ret.res = "arg_error"
                       /\ ret.arg = ret.pos
                       /\ ret.msg = EXPECTED_ERR(ret.T)
                       /\ ret.val = 0

C3_Witness ==
    /\ ret.op = "check_ud_ptr"
    /\ RetInstanceOf("A")
    /\ ret.T = "B"
    /\ ret.res = "arg_error"

\* C4: once register<T>() has returned t, every user_type_of<T>() of the
\* session returns t, whatever was registered or done to the stack in
\* between: the identifier written to registry[key_T] as bits reads back as t.
C4_StableIdentifier ==
    /\ (ret.op = "register" /\ ret.res = "type")
          => /\ Registered(ret.T)
             /\ ret.val = TypeOf(ret.T)
    /\ \A T \in TypeNames :
          Registered(T)
             => LET L1 == user_type_of(lua, T)
                IN  /\ RegistryEntry(T) = Num(from_bits(IntAsBits(TypeOf(T))))
                    /\ L1.err = ""
                    /\ L1.rv = TypeOf(T)
    /\ (ret.op = "user_type_of" /\ ret.res = "type")
          => /\ Registered(ret.T)
             /\ ret.val = TypeOf(ret.T)

C4_Witness ==
    /\ ret.op = "user_type_of"
    /\ ret.res = "type"
    /\ ret.T = "A"
    /\ Registered("B")
    /\ TypeOf("B") < TypeOf("A")

\* C5: for every instance finalization runs exactly once: T::collect once,
\* then the destructor once, never a second time.
C5_FinalizedOnce ==
    \A o \in 1 .. Len(lua.heap) :
        lua.heap[o].fin \in {<<>>, <<"collect", "drop">>}

\* C6: user_type_of<T>() in a session where registry[key_T] is not a number
\* raises throw_error with the message "type does not have an associated
\* type ID in this Lua state" and returns no Type.
C6_UnregisteredThrows ==
    (ret.op = "user_type_of" /\ RegistryEntry(ret.T).k # "num")
        => /\ ret.res = "throw_error"
           /\ ret.msg = NotRegisteredMsg
           /\ ret.val = 0

C6_Witness ==
    /\ ret.op = "user_type_of"
    /\ ret.T = "B"
    /\ ret.res = "throw_error"
    /\ Registered("A")

\* C7 as stated: for an unregistered type the identifier query returns (an
\* absent or invalid identifier) to its caller and does not itself end the
\* native call.
C7_QueryReturnsToCaller ==
    (ret.op = "user_type_of" /\ ~Registered(ret.T)) => ret.res = "type"

\* C7 as amended: user_type_of returns to its caller exactly when the type is
\* registered; for an unregistered type it ends the native call itself by
\* throw_error, so the caller receives no identifier and the host discards
\* the frame.
C7_UnregisteredQueryExits ==
    ret.op = "user_type_of"
        => /\ (ret.res = "type") = Registered(ret.T)
           /\ ~Registered(ret.T)
                 => /\ ret.res = "throw_error"
                    /\ ret.val = 0
                    /\ lua.stack = <<>>

C7_Witness ==
    /\ ret.op = "user_type_of"
    /\ ~Registered(ret.T)
    /\ ret.res = "throw_error"
    /\ lua.names # [x \in {} |-> 0]

\* C8: over a run of push_value and pop calls of a caller that never pops
\* more than the depth, top() equals top() before the run plus the number of
\* push_value calls minus the sum of the popped amounts; pop(0) leaves the
\* stack as it was.
C8_TopAccounting ==
    /\ top(lua) = hist.base + hist.pushes - hist.popped
    /\ (ret.op = "pop" /\ ret.arg = 0) => lua.stack = ret.pre
    /\ ret.op = "push_value" => top(lua) = Len(ret.pre) + 1
    /\ ret.op = "pop" => top(lua) = Len(ret.pre) - ret.arg

C8_Witness ==
    /\ hist.calls = MaxOps
    /\ hist.pushes > 0
    /\ hist.popped > 0
    /\ ret.op = "pop"
    /\ ret.arg = 0

\* C9: set_top(n) leaves exactly n values: from depth d >= n it keeps the
\* lower n, from depth d < n it keeps all d and adds n - d nils; a second
\* set_top(n) changes nothing.
C9_SetTop ==
    ret.op = "set_top"
        => /\ top(lua) = ret.arg
           /\ \A i \in 1 .. ret.arg :
                 lua.stack[i] = IF i <= Len(ret.pre) THEN ret.pre[i] ELSE Nil
           /\ set_top(lua, ret.arg) = lua

C9_Witness ==
    /\ ret.op = "set_top"
    /\ Len(ret.pre) = 1
    /\ ret.pre[1] # Nil
    /\ ret.arg = 2

\* C10: for every bit pattern x, push_bits(x) followed by get_bits(-1)
\* returns x, and the stack is one deeper than before.
C10_BitsRoundTrip ==
    ret.op = "get_bits"
        => /\ ret.val = ret.arg
           /\ top(lua) = 1

PcallBelow == SubSeq(ret.pre, 1, Len(ret.pre) - ret.arg - 1)

\* C12: pcall returns Err exactly when the host status is non-zero and Ok
\* exactly when it is zero; when the called function raises throw_error the
\* result is Err and exactly one error value replaces the callable and its
\* n_args arguments; when it completes normally the result is Ok and
\* exactly n_results values replace them.
C12_PcallResult ==
    ret.op = "pcall"
        => /\ (ret.res = "Err") = (ret.val # 0)
           /\ (ret.res = "Ok") = (ret.val = 0)
           /\ SubSeq(lua.stack, 1, Len(PcallBelow)) = PcallBelow
           /\ ret.msg # ""
                 => /\ ret.res = "Err"
                    /\ top(lua) = Len(PcallBelow) + 1
                    /\ ret.ty = 0 => At(lua, -1) = ErrorValue(ret.msg)
           /\ ret.msg = ""
                 => /\ ret.res = "Ok"
                    /\ top(lua) = Len(PcallBelow) + ret.pos

C12_Witness ==
    /\ ret.op = "pcall"
    /\ ret.msg = "throw_error"
    /\ ret.res = "Err"
    /\ ret.arg = 2
    /\ Len(PcallBelow) = 1
    /\ lua.stack = Append(PcallBelow, ErrorValue("throw_error"))

\* C20: lua_add called with two numbers a and b pushes exactly one value,
\* a + b, and returns a result count of 1 (Add(2, 3) is 5); when argument 1
\* or 2 is no number, check_number exits before anything is pushed and no
\* count is returned.
C20_LuaAdd ==
    /\ ret.op = "lua_add"
          => IF Len(ret.pre) >= 2 /\ ret.pre[1].k = "num" /\ ret.pre[2].k = "num"
             THEN /\ ret.res = "rets"
                  /\ ret.val = 1
                  /\ lua.stack = Append(ret.pre, Num(NumAdd(ret.pre[1].num, ret.pre[2].num)))
                  /\ (ret.pre[1] = Num(NumOfNat(2)) /\ ret.pre[2] = Num(NumOfNat(3)))
                        => At(lua, -1) = Num(NumOfNat(5))
             ELSE /\ ret.res = "type_error"
                  /\ ret.val = 0
                  /\ ret.top = Len(ret.pre)
                  /\ ret.arg = IF Len(ret.pre) >= 1 /\ ret.pre[1].k = "num" THEN 2 ELSE 1
    /\ (/\ ret.op = "pcall"
        /\ ret.arg = 2
        /\ ret.pos = 1
        /\ ret.pre[Len(ret.pre) - 2] = Closure(LuaAddFn, NumZero, 0)
        /\ ret.pre[Len(ret.pre) - 1].k = "num"
        /\ ret.pre[Len(ret.pre)].k = "num")
          => /\ ret.res = "Ok"
             /\ lua.stack = Append(PcallBelow,
                                   Num(NumAdd(ret.pre[Len(ret.pre) - 1].num,
                                              ret.pre[Len(ret.pre)].num)))

C20_Witness ==
    /\ ret.op = "lua_add"
    /\ ret.pre = <<Num(NumOfNat(2)), Num(NumOfNat(3))>>
    /\ ret.val = 1
    /\ lua.stack[3] = Num([sign |-> 0, exp |-> Pow2(ExpBits - 1) + 1, mant |-> Pow2(MantBits - 2)])

\* C13, one step: create_ref pops exactly one value and binds it to a handle
\* that was not valid; push_ref(h) pushes the value of a valid h, and nil
\* for an invalid (freed) one, without failing; free_ref(h) invalidates h
\* only, and changes nothing when h is invalid; no other operation changes
\* any reference.
C13_RefStep ==
    /\ ret'.op = "create_ref"
          => /\ ~ValidRef(lua, ret'.val)
             /\ ValidRef(lua', ret'.val)
             /\ lua'.refs[ret'.val] = At(lua, -1)
             /\ \A h \in DOMAIN lua.refs : ValidRef(lua', h) /\ lua'.refs[h] = lua.refs[h]
             /\ lua'.stack = SubSeq(lua.stack, 1, top(lua) - 1)
    /\ ret'.op = "push_ref"
          => /\ ret'.res = "ok"
             /\ lua'.refs = lua.refs
             /\ lua'.stack = Append(lua.stack, IF ValidRef(lua, ret'.arg)
                                               THEN lua.refs[ret'.arg] ELSE Nil)
    /\ ret'.op = "free_ref"
          => /\ ret'.res = "ok"
             /\ ~ValidRef(lua', ret'.arg)
             /\ \A h \in (DOMAIN lua.refs) \ {ret'.arg} :
                   ValidRef(lua', h) /\ lua'.refs[h] = lua.refs[h]
             /\ lua'.stack = lua.stack
             /\ ~ValidRef(lua, ret'.arg) => lua' = lua
    /\ ret'.op \notin {"create_ref", "free_ref"} => lua'.refs = lua.refs

\* C13: the reference lifecycle, over every behaviour.
C13_RefLifecycle == [][C13_RefStep]_vars

\* handle 2 is valid, so handle 1 was created before it; handle 1 has been
\* freed since, and push_ref(1) has just pushed nil
C13_Witness ==
    /\ ret.op = "push_ref"
    /\ ret.arg = 1
    /\ ~ValidRef(lua, 1)
    /\ ValidRef(lua, 2)
    /\ lua.refs[2] # Nil
    /\ At(lua, -1) = Nil

\* C14: every operation reachable through a shared Lua handle runs neither
\* the collector nor scripted code, so the value behind a pointer obtained by
\* test_ud_ptr from a slot still on the stack is still alive (neither
\* finalized nor freed).
C14_SharedOpsCollectorSafe ==
    ret.op \in SharedOps =>
        /\ ret.ran = ""
        /\ \A i \in 1 .. top(lua) :
              lua.stack[i].k = "ud" =>
                  /\ ~lua.heap[lua.stack[i].v].freed
                  /\ lua.heap[lua.stack[i].v].fin = <<>>

\* C15: register<T>() leaves a __gc finalizer in T's metatable exactly when
\* T needs drop; an instance of a type without drop glue is never finalized
\* (T::collect is not run for it), also when the host collects it.
C15_GcIffNeedsDrop ==
    /\ \A T \in TypeNames :
          Registered(T) => (GcOf(lua, TypeOf(T)).k = "func" <=> needs_drop(T))
    /\ \A o \in 1 .. Len(lua.heap) :
          (lua.heap[o].tname # "" /\ ~needs_drop(lua.heap[o].tname)) => lua.heap[o].fin = <<>>

\* both types are registered, and the host has collected an instance of B
C15_Witness ==
    /\ Registered("A")
    /\ Registered("B")
    /\ GcOf(lua, TypeOf("A")) = Closure(GcFn("A"), from_bits(IntAsBits(TypeOf("A"))), 1)
    /\ GcOf(lua, TypeOf("B")) = Nil
    /\ ret.op = "collect"
    /\ lua.heap[ret.arg].freed
    /\ lua.heap[ret.arg].tname = "B"

\* C16: each register<T>() runs T::init_metatable exactly once, and no other
\* operation runs it; when the hook is called, T's metatable is on top of
\* the stack, registry[key_T] already holds the identifier, __gc is already
\* installed if T needs drop, and the context's self_ty is the identifier
\* register returns.
C16_HookOnceAfterSetup ==
    /\ ret.op # "register" => ret.hooks = <<>>
    /\ ret.op = "register" =>
          /\ Len(ret.hooks) = 1
          /\ ret.hooks[1].T = ret.T
          /\ ret.hooks[1].self_ty = ret.val
          /\ ret.hooks[1].on_top = Table(ret.val)
          /\ ret.hooks[1].entry = Num(from_bits(IntAsBits(ret.val)))
          /\ needs_drop(ret.T) =>
                ret.hooks[1].gc = Closure(GcFn(ret.T), from_bits(IntAsBits(ret.val)), 1)

\* register<A>() has returned, A being the second type registered here
C16_Witness ==
    /\ ret.op = "register"
    /\ ret.T = "A"
    /\ Registered("B")
    /\ ret.val = TypeOf("A")
    /\ TypeOf("B") < TypeOf("A")
    /\ Len(ret.hooks) = 1
    /\ ret.hooks[1].gc.k = "func"

\* C17 as stated, one step: a register<T>() for a type that is registered
\* already yields a metatable other than the one the first call made.
C17_ShadowStep ==
    (ret'.op = "register" /\ ret'.T \in DOMAIN lua.names)
        => /\ ret'.val # lua.names[ret'.T]
           /\ DOMAIN lua'.tables # DOMAIN lua.tables

\* C17 as stated: registering a type twice makes two distinct metatables.
C17_SecondRegisterShadows == [][C17_ShadowStep]_vars

\* C17 amended, one step: a register<T>() for a type that is registered
\* already is not refused; it pushes the metatable the first call made and
\* returns the same identifier, makes no new metatable, and leaves
\* registry[key_T] and the __gc field as the first call set them.
C17_ReuseStep ==
    (ret'.op = "register" /\ ret'.T \in DOMAIN lua.names)
        => /\ ret'.res = "type"
           /\ ret'.val = lua.names[ret'.T]
           /\ lua'.names = lua.names
           /\ DOMAIN lua'.tables = DOMAIN lua.tables
           /\ lua'.stack = Append(lua.stack, Table(lua.names[ret'.T]))
           /\ lua'.tables[SpecialRegistry] = lua.tables[SpecialRegistry]
           /\ GcOf(lua', ret'.val) = GcOf(lua, ret'.val)
           /\ Len(ret'.hooks) = 1

\* C17 amended: registering a type twice reuses the metatable of the first
\* registration; the repetition is not detected and runs the hook again.
C17_SecondRegisterReuses == [][C17_ReuseStep]_vars

\* register<A>() has returned with A's metatable on the stack twice: it was
\* there, from an earlier register<A>(), before this call pushed it again
C17_Witness ==
    /\ ret.op = "register"
    /\ ret.T = "A"
    /\ ret.res = "type"
    /\ lua.stack = <<Table(TypeOf("A")), Table(TypeOf("A"))>>

\* C18: every live userdata made by create_user_type/push_user_type keeps
\* the header it was given: data is the address of the value embedded in
\* the same block, rust_ty the identifier of its type, ty the narrow form of
\* that identifier; no operation of the binding changes them.
C18_HeaderNeverChanges ==
    \A o \in 1 .. Len(lua.heap) :
        (lua.heap[o].origin = "create_user_type" /\ ~lua.heap[o].freed)
            => /\ lua.heap[o].data = ValueAddr(o)
               /\ lua.heap[o].rust_ty = TypeOf(lua.heap[o].tname)
               /\ lua.heap[o].ty = AsUChar(TypeOf(lua.heap[o].tname))

\* the registry, the metatables and the stack of session M are those of L
SameSession(L, M) ==
    /\ L.names = M.names
    /\ L.tables = M.tables
    /\ L.stack = M.stack
    /\ L.heap = M.heap

\* C19, one step: a register<T>() or user_type_of<T>() in one session leaves
\* the other session as it was; user_type_of<T>() returns the identifier
\* held by the registry of the session it is called in, and raises there
\* when that session has not registered T, whatever the other session did.
C19_SessionStep ==
    /\ ret'.pos = 1 => lua'.other = lua.other
    /\ ret'.pos = 2 => SameSession(lua', lua)
    /\ (ret'.op = "user_type_of" /\ ret'.pos = 1) =>
          IF ret'.T \in DOMAIN lua.names
          THEN ret'.res = "type" /\ ret'.val = lua.names[ret'.T]
          ELSE ret'.res = "throw_error"
    /\ (ret'.op = "user_type_of" /\ ret'.pos = 2) =>
          IF ret'.T \in DOMAIN lua.other.names
          THEN ret'.res = "type" /\ ret'.val = lua.other.names[ret'.T]
          ELSE ret'.res = "throw_error"
    /\ (ret'.op = "register" /\ ret'.pos = 1) =>
          /\ ret'.val = lua'.names[ret'.T]
          /\ DOMAIN lua'.other.names = DOMAIN lua.other.names
    /\ (ret'.op = "register" /\ ret'.pos = 2) =>
          /\ ret'.val = lua'.other.names[ret'.T]
          /\ DOMAIN lua'.names = DOMAIN lua.names

\* C19: type identifiers are scoped to one session.
C19_SessionScoped == [][C19_SessionStep]_vars

\* A is registered in both sessions under different identifiers, and
\* user_type_of<A>() in the second session returned the second session's
C19_Witness ==
    /\ ret.op = "user_type_of"
    /\ ret.pos = 2
    /\ ret.T = "A"
    /\ "A" \in DOMAIN lua.names
    /\ "A" \in DOMAIN lua.other.names
    /\ lua.names["A"] # lua.other.names["A"]
    /\ ret.val = lua.other.names["A"]

\* C21, one step: set_int(stack_pos, i) with a table t at stack_pos and the
\* value v on top returns normally, has stored v under i in t and in no
\* other table, and has popped v and nothing else.
C21_SetIntStep ==
    ret'.op = "set_int" =>
        LET t == At(lua, ret'.pos).v
        IN  /\ ret'.res = "ok"
            /\ ~lua'.wild
            /\ lua'.stack = SubSeq(lua.stack, 1, top(lua) - 1)
            /\ lua'.tables[t] = TablePut(lua.tables[t], Num(NumOfNat(ret'.arg)), At(lua, -1))
            /\ \A x \in (DOMAIN lua.tables) \ {t} : lua'.tables[x] = lua.tables[x]

\* C21: set_int assigns into the table at stack_pos.
C21_SetInt == [][C21_SetIntStep]_vars

\* the metatable create_user_type finds for an identifier: the table of the
\* identifier when one was created, none (0) otherwise
MetatableOf(ty) == IF \E name \in DOMAIN lua.names : lua.names[name] = ty THEN ty ELSE 0

\* C22: a create_user_type that returned a value left the stack exactly one
\* deeper, the new userdata on top of what was there; the userdata has the
\* metatable of the identifier when there is one and no metatable otherwise.
C22_CreateFrame ==
    (ret.op = "create_user_type" /\ ret.res = "some") =>
        /\ lua.stack = Append(ret.pre, FullUd(Len(lua.heap)))
        /\ lua.heap[Len(lua.heap)].mt = MetatableOf(ret.ty)

\* both branches happened: a userdata made without a metatable lies below
\* one made with the metatable of its type
C22_Witness ==
    /\ ret.op = "create_user_type" /\ ret.res = "some"
    /\ Len(lua.heap) = 2
    /\ lua.stack = <<FullUd(1), FullUd(2)>>
    /\ lua.heap[1].mt = 0
    /\ lua.heap[2].mt = ret.ty /\ ret.ty # 0

\* C26: a finalizer runs only on a value init has written, and only an
\* instance whose init returned and whose header is stamped has a metatable:
\* the userdata of an init that did not complete has none, and its
\* collection records neither collect nor the destructor.
C26_NoFinalizerBeforeInit ==
    \A o \in 1 .. Len(lua.heap) :
        /\ lua.heap[o].fin # <<>> => lua.heap[o].tname # ""
        /\ (~lua.heap[o].freed /\ lua.heap[o].mt # 0) =>
              /\ lua.heap[o].tname # ""
              /\ lua.heap[o].value \in Values
              /\ lua.heap[o].data = ValueAddr(o)
              /\ lua.heap[o].rust_ty = lua.heap[o].mt

\* the collector reclaimed a userdata whose init unwound, made when its type
\* was registered with a finalizer (the instance below it has that
\* metatable): nothing was run on it
C26_Witness ==
    /\ ret.op = "collect" /\ ret.arg = 2
    /\ Len(lua.heap) = 2
    /\ lua.heap[1].tname = "A" /\ GcOf(lua, lua.heap[1].mt).k = "func"
    /\ lua.heap[2].freed /\ lua.heap[2].tname = "" /\ lua.heap[2].fin = <<>>

\* C27, one step: a create_user_type whose allocation returned null returns
\* None and leaves the session as it was: no value written, no header, no
\* metatable pushed or set, the stack as the host left it.
C27_NullStep ==
    (ret'.op = "create_user_type" /\ ret'.res = "none") => lua' = lua

\* C27: a null allocation ends create_user_type at once.
C27_NullAllocation == [][C27_NullStep]_vars

\* a null allocation for a registered type, whose metatable push_metatable
\* would have found
C27_Witness ==
    /\ ret.op = "create_user_type" /\ ret.res = "none"
    /\ Registered(ret.T) /\ ret.ty = TypeOf(ret.T)
    /\ top(lua) >= 1

\* C24, one step: a user_type_of that returned the identifier left the top
\* of the stack where it was.
C24_PureStep ==
    (ret'.op = "user_type_of" /\ ret'.res = "type") => top(lua') = top(lua)

\* C24: a successful user_type_of is stack-pure.
C24_UserTypeOfStackPure == [][C24_PureStep]_vars

\* C25, one step: a register left the stack exactly one deeper, with the
\* metatable of the type on top of what was there.
C25_RegisterStep ==
    ret'.op = "register" =>
        /\ ret'.res = "type"
        /\ ret'.T \in DOMAIN lua'.names
        /\ lua'.stack = Append(lua.stack, Table(lua'.names[ret'.T]))

\* C25: register nets one slot, the metatable.
C25_RegisterFrame == [][C25_RegisterStep]_vars

\* a register of a type with drop glue, on a stack that was not empty: the
\* finalizer is in the metatable now on top
C25_Witness ==
    /\ ret.op = "register" /\ ret.T = "A"
    /\ top(lua) = 2
    /\ At(lua, -1) = Table(TypeOf("A"))
    /\ GcOf(lua, TypeOf("A")).k = "func"

\* C23: the count of a Rets is never negative: new(n) holds n when n is at
\* most c_int::MAX and 0 otherwise, From<usize> gives what new gives, and
\* From<()> gives the zero count.
C23_RetsNonNegative ==
    /\ ret.op \in {"Rets::new", "Rets::from(usize)"} =>
          /\ ret.val >= 0
          /\ ret.val = IF ret.arg <= Pow2(IntBits - 1) - 1 THEN ret.arg ELSE 0
    /\ ret.op = "Rets::from(usize)" => ret.val = Rets_new(ret.arg)
    /\ ret.op = "Rets::from(())" => ret.val = 0

\* a count above c_int::MAX whose cast would be negative was given to new
C23_Witness ==
    /\ ret.op = "Rets::new"
    /\ ret.arg = Pow2(IntBits - 1)
    /\ ret.val = 0

C29_GcStep ==
    (ret'.op = "__gc" /\ ~is_type(lua, ret'.pos, ret'.ty)) =>
        /\ ret'.res = "arg_error"
        /\ ret'.arg = 1
        /\ ret'.msg = EXPECTED_ERR(ret'.T)
        /\ ~lua'.wild
        /\ \A o \in 1 .. Len(lua.heap) : lua'.heap[o].fin = lua.heap[o].fin

\* C29: the finalizer rejects a self that is not of its type.
C29_GcRejectsForeignSelf == [][C29_GcStep]_vars

\* the finalizer of A was called on an instance of B: it raised, and the
\* instance is untouched
C29_Witness ==
    /\ ret.op = "__gc" /\ ret.T = "A" /\ ret.res = "arg_error"
    /\ ret.pos \in 1 .. Len(ret.pre)
    /\ ret.pre[ret.pos] = FullUd(1)
    /\ lua.heap[1].tname = "B" /\ lua.heap[1].rust_ty # ret.ty
    /\ lua.heap[1].fin = <<>>

====
